---- MODULE Spec2Model ----
(***************************************************************************)
(* Model of depdive's source-reconciliation engine (depdive/src/diff.rs): *)
(* the commit resolver (tag heuristic, manifest-history walk), the        *)
(* manifest locator, the subtree extractor, the tree differ, the workspace *)
(* (tarballs and clones), analyze_crate_source_diff,                       *)
(* get_git_source_version_diff_info, get_version_diff_info_between_repos   *)
(* and the #[serial] tests that share a repository.                        *)
(*                                                                         *)
(* Strings the code inspects character by character (tag names, package   *)
(* names, version strings) are sequences of one-character strings.        *)
(* Option<T> is a set with at most one element: None == {}, Some(x) ==    *)
(* {x}.  A path is the sequence of its components.                        *)
(***************************************************************************)
EXTENDS Integers, Sequences, FiniteSets, TLC

VARIABLES
    parents,     \* upstream repository: commit -> sequence of parent commits
    trees,       \* upstream repository: commit -> tree (path -> blob)
    tags,        \* upstream repository: tag name -> commit it peels to
    head,        \* upstream repository: commit HEAD points at
    worktree,    \* upstream repository: tree checked out in the working directory
    cratesio,    \* tree of the single commit of the published-side repository
    archive,     \* top-level entries of the tarball the registry serves
    registry,    \* <<name, version>> -> tree of the package in that tarball
    workspace,   \* the directory of the DiffAnalyzer: what it holds on disk
    analyses,    \* test thread -> how far its walk of the shared repository is
    serial,      \* the test thread that holds the lock of #[serial], if any
    op,          \* operation that returned last ("none" before the first call)
    name,        \* its package name argument
    version,     \* its version argument
    repository,  \* its repository argument (Option<&str>)
    arg,         \* its further argument (second version, tree and path), if any
    entry,       \* working tree of the upstream repository when it was called
    ret          \* what it returned

vars == <<parents, trees, tags, head, worktree, cratesio, archive, registry, workspace,
          analyses, serial,
          op, name, version, repository, arg, entry, ret>>

(***************************************************************************)
(* Bounds                                                                  *)
(***************************************************************************)
MaxTags == 2        \* tags in the repository of the tag-heuristic runs
MaxCommits == 3     \* commits in the history of the manifest-walk runs
MaxContent == 2     \* distinct blob contents of a published file
MaxEntries == 2     \* top-level entries of a tarball

None == {}
Some(x) == {x}
TheOne(S) == CHOOSE x \in S : TRUE

(***************************************************************************)
(* Characters and the strings of the runs                                  *)
(***************************************************************************)
Digits19 == {"1", "2", "3", "4", "5", "6", "7", "8", "9"}
Digits == Digits19 \cup {"0"}
Letters == {"a", "c", "d", "e", "g", "i", "l", "m", "o", "p", "r", "s", "u", "v", "y"}
\* \w of the regex crate: letters, digits and the underscore
WordChars == Letters \cup Digits \cup {"_"}

Guppy == <<"g", "u", "p", "p", "y">>
GuppySummaries == Guppy \o <<"-", "s", "u", "m", "m", "a", "r", "i", "e", "s">>
CargoGuppy == <<"c", "a", "r", "g", "o", "-">> \o Guppy

V030 == <<"0", ".", "3", ".", "0">>
V18 == <<"1", ".", "8">>
V018 == <<"0", ".", "1", ".", "8">>
V008 == <<"0", ".", "0", ".", "8">>
V1008 == <<"1", "0", ".", "0", ".", "8">>
V1018 == <<"1", "0", ".", "1", ".", "8">>
V010 == <<"0", ".", "1", ".", "0">>
V020 == <<"0", ".", "2", ".", "0">>
V0100 == <<"0", ".", "1", "0", ".", "0">>

(***************************************************************************)
(* Tag heuristic: get_head_commit_oid_for_version_from_tags                *)
(***************************************************************************)
\* A compiled pattern fragment is a sequence of atoms: a literal character
\* or "any character" (an unescaped dot).
Lit(c) == [any |-> FALSE, ch |-> c]
AnyChar == [any |-> TRUE, ch |-> "."]

\* version.replace('.', "\\."): every dot of the version becomes an escaped,
\* hence literal, dot; the other characters of a version stand for themselves.
version_formatted_for_regex(ver) == [i \in 1..Len(ver) |-> Lit(ver[i])]

\* The package name is spliced into the pattern as it is: a dot in it would
\* match any character.
name_in_pattern(nm) ==
    [i \in 1..Len(nm) |-> IF nm[i] = "." THEN AnyChar ELSE Lit(nm[i])]

MatchesAtoms(s, atoms) ==
    /\ Len(s) = Len(atoms)
    /\ \A i \in 1..Len(s) : atoms[i].any \/ s[i] = atoms[i].ch

\* (?:.*[^1-9])? : empty, or anything ending in a character other than 1-9
OptionalGap(g) == g = <<>> \/ g[Len(g)] \notin Digits19

\* \W* : a possibly empty run of non-word characters
NonWordRun(g) == \A i \in 1..Len(g) : g[i] \notin WordChars

\* Pattern 1 without its guard on the character before the version
MatchesPattern1_AnyPrefix(tag, ver) ==
    \E i \in 0..Len(tag) :
        MatchesAtoms(SubSeq(tag, i + 1, Len(tag)), version_formatted_for_regex(ver))

\* Pattern 1: ^(?:.*[^1-9])?{version}$
MatchesPattern1(tag, ver) ==
    \E i \in 0..Len(tag) :
        /\ OptionalGap(SubSeq(tag, 1, i))
        /\ MatchesAtoms(SubSeq(tag, i + 1, Len(tag)), version_formatted_for_regex(ver))

\* Pattern 2: ^.*{name}(?:.*[^1-9])?{version}$
MatchesPattern2(tag, nm, ver) ==
    \E a \in 0..Len(tag), b \in 0..Len(tag) :
        /\ a + Len(nm) <= b
        /\ MatchesAtoms(SubSeq(tag, a + 1, a + Len(nm)), name_in_pattern(nm))
        /\ OptionalGap(SubSeq(tag, a + Len(nm) + 1, b))
        /\ MatchesAtoms(SubSeq(tag, b + 1, Len(tag)), version_formatted_for_regex(ver))

\* Pattern 3: ^.*{name}\W*{version}$
MatchesPattern3(tag, nm, ver) ==
    \E a \in 0..Len(tag), b \in 0..Len(tag) :
        /\ a + Len(nm) <= b
        /\ MatchesAtoms(SubSeq(tag, a + 1, a + Len(nm)), name_in_pattern(nm))
        /\ NonWordRun(SubSeq(tag, a + Len(nm) + 1, b))
        /\ MatchesAtoms(SubSeq(tag, b + 1, Len(tag)), version_formatted_for_regex(ver))

is_match(k, tag, nm, ver) ==
    CASE k = 1 -> MatchesPattern1(tag, ver)
      [] k = 2 -> MatchesPattern2(tag, nm, ver)
      [] k = 3 -> MatchesPattern3(tag, nm, ver)

\* repo.tag_names(Some("*{version}")): the tags whose name ends with the version
IsSuffix(s, t) == Len(s) <= Len(t) /\ SubSeq(t, Len(t) - Len(s) + 1, Len(t)) = s

candidate_tags(tagmap, ver) == {t \in DOMAIN tagmap : IsSuffix(ver, t)}

\* hm after the tags failing pattern k were removed from it
Drain(hm, k, nm, ver) ==
    [t \in {u \in DOMAIN hm : is_match(k, u, nm, ver)} |-> hm[t]]

\* hm when the k-th round of the loop has removed its tags (k = 0: as filled)
RECURSIVE hm_after(_, _, _, _)
hm_after(k, tagmap, nm, ver) ==
    IF k = 0
    THEN [t \in candidate_tags(tagmap, ver) |-> tagmap[t]]
    ELSE Drain(hm_after(k - 1, tagmap, nm, ver), k, nm, ver)

\* multiple tags can point to the same commit
unique_commits(hm) == {hm[t] : t \in DOMAIN hm}

\* The loop returning when one tag, rather than one commit, is left
ReturnRound_CountingTags(tagmap, nm, ver) ==
    LET Unique(k) == Cardinality(DOMAIN hm_after(k, tagmap, nm, ver)) = 1
    IN  IF Unique(1) THEN 1 ELSE IF Unique(2) THEN 2 ELSE IF Unique(3) THEN 3 ELSE 0

\* The round at which the loop returns, 0 when it runs through all three
ReturnRound(tagmap, nm, ver) ==
    LET Unique(k) == Cardinality(unique_commits(hm_after(k, tagmap, nm, ver))) = 1
    IN  IF Unique(1) THEN 1 ELSE IF Unique(2) THEN 2 ELSE IF Unique(3) THEN 3 ELSE 0

get_head_commit_oid_for_version_from_tags(tagmap, nm, ver) ==
    LET k == ReturnRound(tagmap, nm, ver)
    IN  IF k = 0 THEN None ELSE unique_commits(hm_after(k, tagmap, nm, ver))

(***************************************************************************)
(* Trees, blobs and the manifest parser                                    *)
(***************************************************************************)
\* A tree maps the paths of its files to blobs.  A blob records what the
\* manifest parser reads from it (role, package name, version) and a datum
\* that tells apart contents the parser does not look at.
FileBlob(d) == [role |-> "file", pkg |-> <<>>, ver |-> None, data |-> d]
Manifest(r, nm, v) == [role |-> r, pkg |-> nm, ver |-> v, data |-> 0]

EmptyTree == [p \in {} |-> FileBlob(0)]

Last(s) == s[Len(s)]
Front(s) == SubSeq(s, 1, Len(s) - 1)
IsPrefix(s, t) == Len(s) <= Len(t) /\ SubSeq(t, 1, Len(s)) = s

\* CargoTomlParser: new fails on a file that is no manifest,
\* get_package_version on a manifest that declares no version.
CargoTomlParser_new(blob) == blob.role \in {"package", "workspace"}
get_toml_type(blob) == blob.role
get_package_name(blob) == blob.pkg
get_package_version(blob) == blob.ver

\* Version::from_str for the versions x.y.z of the runs: the three numbers,
\* None for anything that is not three dot-separated numbers without
\* leading zeros.
DigitChars == <<"0", "1", "2", "3", "4", "5", "6", "7", "8", "9">>
DigitVal(c) == (CHOOSE n \in 1..10 : DigitChars[n] = c) - 1

RECURSIVE NumVal(_)
NumVal(part) == IF part = <<>> THEN 0 ELSE NumVal(Front(part)) * 10 + DigitVal(Last(part))

IsNumeric(part) ==
    /\ part # <<>>
    /\ \A i \in 1..Len(part) : part[i] \in Digits
    /\ (Len(part) > 1 => part[1] # "0")

Version_from_str(s) ==
    LET dots == {i \in 1..Len(s) : s[i] = "."}
    IN  IF Cardinality(dots) # 2 THEN None
        ELSE LET d1 == CHOOSE i \in dots : \A j \in dots : i <= j
                 d2 == CHOOSE i \in dots : \A j \in dots : j <= i
                 a == SubSeq(s, 1, d1 - 1)
                 b == SubSeq(s, d1 + 1, d2 - 1)
                 c == SubSeq(s, d2 + 1, Len(s))
             IN  IF IsNumeric(a) /\ IsNumeric(b) /\ IsNumeric(c)
                 THEN Some(<<NumVal(a), NumVal(b), NumVal(c)>>)
                 ELSE None

\* Version::to_string: the three numbers in decimal, joined by dots
RECURSIVE Decimal(_)
Decimal(n) ==
    IF n < 10 THEN <<DigitChars[n + 1]>>
    ELSE Decimal(n \div 10) \o <<DigitChars[(n % 10) + 1]>>

Version_to_string(v) == Decimal(v[1]) \o <<".">> \o Decimal(v[2]) \o <<".">> \o Decimal(v[3])

\* x > y on Result<Version, _>: Ok orders below Err, two Ok by precedence
\* Mutation: an equal version counts as greater
VersionGreater_OrEqual(x, y) ==
    IF x # None /\ y # None
    THEN LET a == TheOne(x)
             b == TheOne(y)
         IN  \/ a[1] > b[1]
             \/ a[1] = b[1] /\ a[2] > b[2]
             \/ a[1] = b[1] /\ a[2] = b[2] /\ a[3] >= b[3]
    ELSE x = None /\ y # None

VersionGreater(x, y) ==
    IF x # None /\ y # None
    THEN LET a == TheOne(x)
             b == TheOne(y)
         IN  \/ a[1] > b[1]
             \/ a[1] = b[1] /\ a[2] > b[2]
             \/ a[1] = b[1] /\ a[2] = b[2] /\ a[3] > b[3]
    ELSE x = None /\ y # None

(***************************************************************************)
(* Manifest locator and subtree extractor                                  *)
(***************************************************************************)
\* File names that end with "Cargo.toml", and the order in which the
\* directory walk meets the manifests of the runs.
EndsWithCargoToml == {"Cargo.toml"}
WalkOrder == << <<"Cargo.toml">>, <<"guppy", "Cargo.toml">> >>

get_all_paths_for_filename(tree) ==
    SelectSeq(WalkOrder, LAMBDA p : p \in DOMAIN tree /\ Last(p) \in EndsWithCargoToml)

RECURSIVE LocateFrom(_, _, _, _)
LocateFrom(paths, i, tree, nm) ==
    IF i > Len(paths) THEN [ok |-> FALSE, path |-> <<>>]
    ELSE LET blob == tree[paths[i]]
         IN  IF ~CargoTomlParser_new(blob) THEN [ok |-> FALSE, path |-> <<>>]
             ELSE IF get_toml_type(blob) = "package" /\ get_package_name(blob) = nm
                  THEN [ok |-> TRUE, path |-> paths[i]]
                  ELSE LocateFrom(paths, i + 1, tree, nm)

locate_package_toml(tree, nm) == LocateFrom(get_all_paths_for_filename(tree), 1, tree, nm)

\* Mutation: the root is looked up as any other path
get_subdirectory_tree_RootLookedUp(tree, path) ==
    LET under == {p \in DOMAIN tree : IsPrefix(path, p) /\ Len(p) > Len(path)}
    IN  IF under = {} \/ path = <<>> THEN [ok |-> FALSE, tree |-> EmptyTree]
        ELSE [ok |-> TRUE,
              tree |-> [q \in {SubSeq(p, Len(path) + 1, Len(p)) : p \in under}
                           |-> tree[path \o q]]]

get_subdirectory_tree(tree, path) ==
    IF path = <<>> THEN [ok |-> TRUE, tree |-> tree]
    ELSE LET under == {p \in DOMAIN tree : IsPrefix(path, p) /\ Len(p) > Len(path)}
         IN  IF under = {} THEN [ok |-> FALSE, tree |-> EmptyTree]
             ELSE [ok |-> TRUE,
                   tree |-> [q \in {SubSeq(p, Len(path) + 1, Len(p)) : p \in under}
                                |-> tree[path \o q]]]

(***************************************************************************)
(* Tree differ                                                             *)
(***************************************************************************)
\* The diff taken from the new tree to the old one
diff_tree_to_tree_Swapped(old, new) ==
    {[path |-> p, status |-> "Added"] : p \in DOMAIN old \ DOMAIN new}
    \cup {[path |-> p, status |-> "Deleted"] : p \in DOMAIN new \ DOMAIN old}
    \cup {[path |-> p, status |-> "Modified"] :
             p \in {q \in DOMAIN old \cap DOMAIN new : old[q] # new[q]}}

diff_tree_to_tree(old, new) ==
    {[path |-> p, status |-> "Added"] : p \in DOMAIN new \ DOMAIN old}
    \cup {[path |-> p, status |-> "Deleted"] : p \in DOMAIN old \ DOMAIN new}
    \cup {[path |-> p, status |-> "Modified"] :
             p \in {q \in DOMAIN old \cap DOMAIN new : old[q] # new[q]}}

ignore_paths ==
    {".cargo_vcs_info.json", "Cargo.toml", "Cargo.toml.orig", "Cargo.lock",
     "README.md", "CHANGELOG.md", "LICENSE.md", "LICENSE-MIT", "LICENSE-APACHE",
     "crates-io.md"}

\* No path is dropped
IsIgnored_Never(path) == FALSE

\* ignore_paths.contains(path.as_str()): the path, written out, is one of the
\* names; the names hold no separator, so the path has one component.
IsIgnored(path) == \E n \in ignore_paths : path = <<n>>

get_crate_source_file_diff_report(deltas) ==
    LET kept == {d \in deltas : ~IsIgnored(d.path)}
    IN  [files_added |-> {d.path : d \in {e \in kept : e.status = "Added"}},
         files_modified |-> {d.path : d \in {e \in kept : e.status = "Modified"}},
         files_deleted |-> {d.path : d \in {e \in kept : e.status = "Deleted"}}]

(***************************************************************************)
(* Manifest-history walk: get_head_commit_oid_for_version_from_cargo_toml  *)
(***************************************************************************)
Range(f) == {f[i] : i \in DOMAIN f}

RECURSIVE Reachable(_)
Reachable(S) ==
    LET T == S \cup UNION {Range(parents[c]) : c \in S}
    IN  IF T = S THEN S ELSE Reachable(T)

\* revwalk with Sort::TIME pushed at head: the commits reachable from head,
\* newest first (a commit is newer than its parents; its number is its time)
RECURSIVE Descending(_)
Descending(S) ==
    IF S = {} THEN <<>>
    ELSE LET m == CHOOSE x \in S : \A y \in S : y <= x
         IN  <<m>> \o Descending(S \ {m})

revwalk == Descending(Reachable({head}))

\* get_version_at_commit: checks the commit out (the working tree becomes its
\* tree) and reads the version the located manifest declares.
\* ok = FALSE: the error of get_package_version is propagated.
\* What get_version_at_commit reads once the commit is checked out:
\* locate_package_toml and get_package_version in the working tree wt
version_in_working_tree(wt, nm) ==
    LET loc == locate_package_toml(wt, nm)
    IN  IF ~loc.ok THEN [ok |-> TRUE, ver |-> None]
        ELSE LET v == get_package_version(wt[loc.path])
             IN  IF v = None THEN [ok |-> FALSE, ver |-> None]
                 ELSE [ok |-> TRUE, ver |-> v]

get_version_at_commit(c, nm) == version_in_working_tree(trees[c], nm)

\* Does the diff of the commit against its parent hold a delta whose path
\* ends with the component Cargo.toml?
TouchesCargoToml(c) ==
    \E d \in diff_tree_to_tree(trees[parents[c][1]], trees[c]) : Last(d.path) = "Cargo.toml"

\* Mutation: no commit counts as a merge
IsMergeCommit_Never(c) == FALSE

\* commit.parent_count() > 1
IsMergeCommit(c) == Len(parents[c]) > 1

\* One iteration of the loop over the revwalk.  st = [wt, found, err]:
\* working tree, version_commit, and whether an error was propagated.
WalkCommit(st, c, nm, ver) ==
    IF st.err \/ IsMergeCommit(c) THEN st
    ELSE IF Len(parents[c]) = 1
    THEN IF ~TouchesCargoToml(c) THEN st
         ELSE LET prev == parents[c][1]
                  post == get_version_at_commit(c, nm)
                  prior == get_version_at_commit(prev, nm)
              IN  IF ~post.ok THEN [st EXCEPT !.wt = trees[c], !.err = TRUE]
                  ELSE IF post.ver # Some(ver) THEN [st EXCEPT !.wt = trees[c]]
                  ELSE IF ~prior.ok THEN [st EXCEPT !.wt = trees[prev], !.err = TRUE]
                  ELSE IF prior.ver = None
                       \* case 2: Cargo.toml added or package renamed
                       THEN [st EXCEPT !.wt = trees[prev], !.found = Some(c)]
                  ELSE IF VersionGreater(Version_from_str(TheOne(post.ver)),
                                         Version_from_str(TheOne(prior.ver)))
                       \* case 1: version updated
                       THEN [st EXCEPT !.wt = trees[prev], !.found = Some(c)]
                  ELSE [st EXCEPT !.wt = trees[prev]]
    ELSE \* case 3: initial commit
         LET post == get_version_at_commit(c, nm)
         IN  IF ~post.ok THEN [st EXCEPT !.wt = trees[c], !.err = TRUE]
             ELSE IF post.ver = Some(ver) THEN [st EXCEPT !.wt = trees[c], !.found = Some(c)]
             ELSE [st EXCEPT !.wt = trees[c]]

RECURSIVE WalkFrom(_, _, _, _, _)
WalkFrom(order, i, st, nm, ver) ==
    IF i > Len(order) THEN st
    ELSE WalkFrom(order, i + 1, WalkCommit(st, order[i], nm, ver), nm, ver)

\* Result: ok (no error propagated), oid (Option<Oid>), wt (working tree left)
get_head_commit_oid_for_version_from_cargo_toml(wt, nm, ver) ==
    LET starter_commit == head
        st == WalkFrom(revwalk, 1, [wt |-> wt, found |-> None, err |-> FALSE], nm, ver)
    IN  IF st.err THEN [ok |-> FALSE, oid |-> None, wt |-> st.wt]
        \* reset head before return
        ELSE [ok |-> TRUE, oid |-> st.found, wt |-> trees[starter_commit]]

(***************************************************************************)
(* Commit resolver: get_head_commit_oid_for_version                        *)
(***************************************************************************)
\* Mutation: the manifest-history walk is tried first
get_head_commit_oid_for_version_WalkFirst(wt, nm, ver) ==
    LET fromToml == get_head_commit_oid_for_version_from_cargo_toml(wt, nm, ver)
        fromTags == get_head_commit_oid_for_version_from_tags(tags, nm, ver)
    IN  IF ~fromToml.ok \/ fromToml.oid # None
        THEN [ok |-> fromToml.ok, oid |-> fromToml.oid, wt |-> fromToml.wt, walked |-> TRUE]
        ELSE [ok |-> TRUE, oid |-> fromTags, wt |-> fromToml.wt, walked |-> TRUE]

\* Result: ok, oid, wt as for the walk; walked tells whether the walk (and so
\* a checkout) was run
get_head_commit_oid_for_version(wt, nm, ver) ==
    LET fromTags == get_head_commit_oid_for_version_from_tags(tags, nm, ver)
    IN  \* First try looking at repository tags
        IF fromTags # None
        THEN [ok |-> TRUE, oid |-> fromTags, wt |-> wt, walked |-> FALSE]
        \* Else try parsing Cargo.toml history
        ELSE LET fromToml == get_head_commit_oid_for_version_from_cargo_toml(wt, nm, ver)
             IN  [ok |-> fromToml.ok, oid |-> fromToml.oid, wt |-> fromToml.wt,
                  walked |-> TRUE]

(***************************************************************************)
(* The workspace: tempdir of the DiffAnalyzer                              *)
(*   extracted: destination directory -> its top-level entries             *)
(*   content:   destination directory -> tree of the package unpacked in it *)
(*   clones:    destination directory -> url it was cloned from            *)
(*   committed: directories init_git has committed in                      *)
(*   remotes:   published-side repository -> url of its remote "source"    *)
(***************************************************************************)
CratesioSuffix == <<"-", "c", "r", "a", "t", "e", "s", "i", "o">>
SourceSuffix == <<"-", "s", "o", "u", "r", "c", "e">>

EmptyWorkspace ==
    [extracted |-> [d \in {} |-> {}], content |-> [d \in {} |-> <<>>],
     clones |-> [d \in {} |-> <<>>],
     committed |-> {}, remotes |-> [d \in {} |-> <<>>]]

\* Mutation: the destination is never found
dest_path_exists_Never(ws, dest_file) == FALSE

\* dest_path.exists()
dest_path_exists(ws, dest_file) ==
    dest_file \in DOMAIN ws.extracted \cup DOMAIN ws.clones

\* Mutation: several entries are accepted
single_entry_OrMore(entries) == Cardinality(entries) >= 1

\* entries.len() != 1 is the error
single_entry(entries) == Cardinality(entries) = 1

\* The response to a GET of download_path
Served(download_path) ==
    IF download_path \in DOMAIN registry THEN registry[download_path] ELSE EmptyTree

\* Result: ok, path (Option: destination directory and the entry in it), ws
\* (the workspace left), effects (what was done)
download_file(ws, download_path, dest_file) ==
    LET fresh == ~dest_path_exists(ws, dest_file)
        \* download the file as tar_gz, then decompress it
        ws1 == IF fresh
               THEN [ws EXCEPT !.extracted = @ @@ (dest_file :> archive),
                               !.content = @ @@ (dest_file :> Served(download_path))]
               ELSE ws
        entries == ws1.extracted[dest_file]
        ok == single_entry(entries)
    IN  [ok |-> ok,
         path |-> IF ok THEN Some(<<dest_file, TheOne(entries)>>) ELSE None,
         ws |-> ws1,
         effects |-> IF fresh THEN {"download"} ELSE {}]

get_cratesio_version(ws, nm, ver) ==
    LET download_path == <<nm, ver>>
        dest_file == nm \o <<"-">> \o ver \o CratesioSuffix
    IN  download_file(ws, download_path, dest_file)

\* Repository::init, add all, commit with no parent on HEAD: the commit is
\* refused when HEAD already points at a commit
init_git(ws, path) ==
    IF path \in ws.committed THEN [ok |-> FALSE, ws |-> ws]
    ELSE [ok |-> TRUE, ws |-> [ws EXCEPT !.committed = @ \cup {path}]]

get_git_repo_for_cratesio_version(ws, nm, ver) ==
    LET d == get_cratesio_version(ws, nm, ver)
    IN  IF ~d.ok THEN d
        ELSE LET g == init_git(d.ws, TheOne(d.path))
             IN  [ok |-> g.ok, path |-> IF g.ok THEN d.path ELSE None,
                  ws |-> g.ws, effects |-> d.effects]

\* Mutation: a clone of another url is replaced by a clone of url
get_git_repo_KeyedByUrl(ws, nm, url) ==
    LET dest_file == nm \o SourceSuffix
        fresh == \/ ~dest_path_exists(ws, dest_file)
                 \/ dest_file \in DOMAIN ws.clones /\ ws.clones[dest_file] # url
        ws1 == IF fresh
               THEN [ws EXCEPT !.clones = (dest_file :> url) @@ @]
               ELSE ws
        ok == dest_file \in DOMAIN ws1.clones
    IN  [ok |-> ok,
         path |-> IF ok THEN Some(<<dest_file>>) ELSE None,
         ws |-> ws1,
         effects |-> IF fresh THEN {"clone"} ELSE {}]

\* Result: ok, path (Option: directory of the repository opened), ws, effects
get_git_repo(ws, nm, url) ==
    LET dest_file == nm \o SourceSuffix
        fresh == ~dest_path_exists(ws, dest_file)
        ws1 == IF fresh THEN [ws EXCEPT !.clones = @ @@ (dest_file :> url)] ELSE ws
        ok == dest_file \in DOMAIN ws1.clones
    IN  [ok |-> ok,
         path |-> IF ok THEN Some(<<dest_file>>) ELSE None,
         ws |-> ws1,
         effects |-> IF fresh THEN {"clone"} ELSE {}]

\* Mutation: the remote "source" is set anew when it exists
setup_remote_Replacing(ws, repo, url) ==
    [ok |-> TRUE, ws |-> [ws EXCEPT !.remotes = (repo :> url) @@ @],
     effects |-> {"remote", "fetch"}]

\* repo.remote("source", url) is refused when the remote exists
setup_remote(ws, repo, url) ==
    IF repo \in DOMAIN ws.remotes THEN [ok |-> FALSE, ws |-> ws, effects |-> {}]
    ELSE [ok |-> TRUE, ws |-> [ws EXCEPT !.remotes = @ @@ (repo :> url)],
          effects |-> {"remote", "fetch"}]

(***************************************************************************)
(* Reconciliation orchestrator: analyze_crate_source_diff                  *)
(***************************************************************************)
\* A repository URL as Url::from_str reads it: whether it parses, its host
\* and its path segments.
Url(parses, host, segments) == [parses |-> parses, host |-> host, segments |-> segments]

\* repo.trim_end_matches(".git") on the segments of the runs
TrimDotGit(seg) == IF seg = "cargo-guppy.git" THEN "cargo-guppy" ELSE seg

trim_remote_url(url) ==
    IF ~url.parses \/ url.host = None \/ Len(url.segments) < 2
    THEN [ok |-> FALSE, url |-> <<>>]
    ELSE [ok |-> TRUE,
          url |-> <<TheOne(url.host), url.segments[1], TrimDotGit(url.segments[2])>>]

\* Mutation: the statistics are left out of the report
Report_StatsOmitted(nm, ver, found, analyzed, different, stats) ==
    [name |-> nm, version |-> ver, release_commit_found |-> found,
     release_commit_analyzed |-> analyzed, is_different |-> different,
     file_diff_stats |-> None]

Report(nm, ver, found, analyzed, different, stats) ==
    [name |-> nm, version |-> ver, release_commit_found |-> found,
     release_commit_analyzed |-> analyzed, is_different |-> different,
     file_diff_stats |-> stats]

\* Deletions counted as a difference
is_different_AnyChange(file_diff_stats) ==
    \/ file_diff_stats.files_added # {}
    \/ file_diff_stats.files_modified # {}
    \/ file_diff_stats.files_deleted # {}

\* Ignoring files from source not included in crates.io, possibly ignored
is_different(file_diff_stats) ==
    file_diff_stats.files_added # {} \/ file_diff_stats.files_modified # {}

\* Errors: the typed one and any other
HeadCommitNotFoundError(nm, ver) ==
    [kind |-> "HeadCommitNotFoundError", crate_name |-> nm, version |-> ver]

AnyhowError == [kind |-> "anyhow", crate_name |-> <<>>, version |-> <<>>]

\* What a call hands back: ok (Ok or Err), the commit resolved (calls of the
\* resolver), the report (analyze_crate_source_diff), the release commit the
\* upstream repository was checked out to (None when that line was not
\* reached), the error (Err), the path, tree or VersionDiffInfo (Ok of the
\* calls that hand one back), and what the call did
Returned(ok, oid, report, checked_out) ==
    [ok |-> ok, oid |-> oid, report |-> report, checked_out |-> checked_out,
     error |-> IF ok THEN None ELSE Some(AnyhowError),
     path |-> None, tree |-> None, info |-> None, effects |-> {}]

\* Mutation: the report without repository says the commit was not found
NoRepositoryReport_NotFound(nm, ver) == Report(nm, ver, Some(FALSE), None, None, None)

\* CrateSourceDiffReport { name, version, ..Default::default() }
NoRepositoryReport(nm, ver) == Report(nm, ver, None, None, None, None)

\* Mutation: the report also says the commit was not analyzed
CommitNotFoundReport_NotAnalyzed(nm, ver) ==
    Report(nm, ver, Some(FALSE), Some(FALSE), None, None)

\* release_commit_found: Some(false), ..Default::default()
CommitNotFoundReport(nm, ver) == Report(nm, ver, Some(FALSE), None, None, None)

\* Mutation: a manifest that is not located counts as a difference
TomlNotLocatedReport_Different(nm, ver) ==
    Report(nm, ver, Some(TRUE), Some(FALSE), Some(TRUE), None)

\* release_commit_found: Some(true), release_commit_analyzed: Some(false)
TomlNotLocatedReport(nm, ver) == Report(nm, ver, Some(TRUE), Some(FALSE), None, None)

\* analyze_crate_source_diff from the checkout of the release commit on.
\* did: what was done so far; resolved, remote: what the resolver and
\* setup_remote handed back.
analyze_release_commit(nm, ver, did, resolved, remote) ==
    LET cratesio_tree == cratesio
        git_repo_starter_commit == head
        head_commit_oid == TheOne(resolved.oid)
        crate_git_tree == trees[head_commit_oid]
        \* git_repo.checkout_tree(release commit)
        checked == trees[head_commit_oid]
        did4 == did \cup remote.effects \cup {"checkout"}
        toml == locate_package_toml(checked, nm)
    IN  IF ~toml.ok
        THEN [ret |-> [Returned(TRUE, resolved.oid,
                                Some(TomlNotLocatedReport(nm, ver)), resolved.oid)
                          EXCEPT !.effects = did4],
              wt |-> checked, ws |-> remote.ws]
        ELSE
        LET toml_path == Front(toml.path)
            scoped == get_subdirectory_tree(crate_git_tree, toml_path)
        IN  IF ~scoped.ok
            THEN [ret |-> [Returned(FALSE, resolved.oid, None, resolved.oid)
                              EXCEPT !.effects = did4],
                  wt |-> checked, ws |-> remote.ws]
            ELSE
            LET diff == diff_tree_to_tree(scoped.tree, cratesio_tree)
                file_diff_stats == get_crate_source_file_diff_report(diff)
            IN  [ret |-> [Returned(TRUE, resolved.oid,
                                   Some(Report(nm, ver, Some(TRUE), Some(TRUE),
                                               Some(is_different(file_diff_stats)),
                                               Some(file_diff_stats))),
                                   resolved.oid)
                             EXCEPT !.effects = did4 \cup {"diff"}],
                 \* reset repo
                 wt |-> trees[git_repo_starter_commit], ws |-> remote.ws]

\* analyze_crate_source_diff from the result of the resolver on.
\* crate_repo, git_repo: what get_git_repo_for_cratesio_version and
\* get_git_repo handed back.
analyze_resolved(nm, ver, url, crate_repo, git_repo, resolved) ==
    LET did == crate_repo.effects \cup git_repo.effects \cup {"resolve"}
                   \cup (IF resolved.walked THEN {"checkout"} ELSE {})
    IN  IF ~resolved.ok
        THEN [ret |-> [Returned(FALSE, None, None, None) EXCEPT !.effects = did],
              wt |-> resolved.wt, ws |-> git_repo.ws]
        ELSE IF resolved.oid = None
        THEN [ret |-> [Returned(TRUE, None, Some(CommitNotFoundReport(nm, ver)), None)
                          EXCEPT !.effects = did],
              wt |-> resolved.wt, ws |-> git_repo.ws]
        ELSE
        \* Add git repo as a remote to crate repo
        TheOne({IF ~remote.ok
                THEN [ret |-> [Returned(FALSE, resolved.oid, None, None)
                                  EXCEPT !.effects = did \cup remote.effects],
                      wt |-> resolved.wt, ws |-> remote.ws]
                ELSE analyze_release_commit(nm, ver, did, resolved, remote) :
                    remote \in {setup_remote(git_repo.ws, TheOne(crate_repo.path), url)}})

\* analyze_crate_source_diff from the published-side repository on
analyze_crate_repo(wt, nm, ver, url, crate_repo) ==
    IF ~crate_repo.ok
    THEN [ret |-> [Returned(FALSE, None, None, None) EXCEPT !.effects = crate_repo.effects],
          wt |-> wt, ws |-> crate_repo.ws]
    ELSE
    \* Get commit for the version release in the git source
    TheOne({IF ~git_repo.ok
            THEN [ret |-> [Returned(FALSE, None, None, None)
                              EXCEPT !.effects = crate_repo.effects \cup git_repo.effects],
                  wt |-> wt, ws |-> git_repo.ws]
            ELSE TheOne({analyze_resolved(nm, ver, url, crate_repo, git_repo, resolved) :
                            resolved \in {get_head_commit_oid_for_version(wt, nm, ver)}}) :
                git_repo \in {get_git_repo(crate_repo.ws, nm, url)}})

\* Result: ret (what is returned), wt (working tree of the upstream
\* repository left behind) and ws (workspace left behind).  What a call
\* hands back is bound once (x \in {call}) and read from there on.
analyze_crate_source_diff(wt, ws, nm, ver, repo) ==
    IF repo = None
    THEN [ret |-> Returned(TRUE, None, Some(NoRepositoryReport(nm, ver)), None),
          wt |-> wt, ws |-> ws]
    ELSE IF ~trim_remote_url(TheOne(repo)).ok
    THEN [ret |-> Returned(FALSE, None, None, None), wt |-> wt, ws |-> ws]
    ELSE
    \* Setup a git repository for crates.io hosted source code
    TheOne({analyze_crate_repo(wt, nm, ver, trim_remote_url(TheOne(repo)).url, crate_repo) :
               crate_repo \in {get_git_repo_for_cratesio_version(ws, nm, ver)}})

(***************************************************************************)
(* get_git_source_version_diff_info                                        *)
(***************************************************************************)
\* The upstream repository of the runs: the one whose commits, trees, tags
\* and working tree the variables hold, opened at {name}-source
UpstreamRepository == <<Guppy \o SourceSuffix>>

VersionDiffInfo(repo, commit_a, commit_b, diff) ==
    [repo |-> repo, commit_a |-> commit_a, commit_b |-> commit_b, diff |-> diff]

\* Mutation: the typed error is lost
Failed_Untyped(err, did) ==
    [Returned(FALSE, None, None, None) EXCEPT !.effects = did]

\* Err(err) of a call that did did
Failed(err, did) ==
    [Returned(FALSE, None, None, None) EXCEPT !.error = Some(err), !.effects = did]

\* Mutation: the tree of version_b is scoped to the directory of the
\* manifest located at the commit of version_b
diff_info_resolved_b_LocatedAtCommit(nm, version_b, toml_path, a, tree_a, b) ==
    LET didB == {"resolve"} \cup (IF a.walked \/ b.walked THEN {"checkout"} ELSE {})
    IN  IF ~b.ok THEN [ret |-> Failed(AnyhowError, didB), wt |-> b.wt]
        ELSE IF b.oid = None
        THEN [ret |-> Failed(HeadCommitNotFoundError(nm, version_b), didB), wt |-> b.wt]
        ELSE
        LET commit_oid_a == TheOne(a.oid)
            commit_oid_b == TheOne(b.oid)
            toml_b == locate_package_toml(trees[commit_oid_b], nm)
            tree_b == get_subdirectory_tree(trees[commit_oid_b],
                                            IF toml_b.ok THEN Front(toml_b.path) ELSE toml_path)
        IN  IF ~tree_b.ok THEN [ret |-> Failed(AnyhowError, didB), wt |-> b.wt]
            ELSE [ret |-> [Returned(TRUE, None, None, None)
                              EXCEPT !.info = Some(VersionDiffInfo(UpstreamRepository,
                                                       commit_oid_a, commit_oid_b,
                                                       diff_tree_to_tree(tree_a.tree,
                                                                         tree_b.tree))),
                                     !.effects = didB \cup {"diff"}],
                  wt |-> b.wt]

\* get_git_source_version_diff_info from the resolution of version_b on.
\* a, tree_a: what the resolver and get_subdirectory_tree handed back for
\* version_a; b: what the resolver handed back for version_b.
diff_info_resolved_b(nm, version_b, toml_path, a, tree_a, b) ==
    LET didB == {"resolve"} \cup (IF a.walked \/ b.walked THEN {"checkout"} ELSE {})
    IN  IF ~b.ok THEN [ret |-> Failed(AnyhowError, didB), wt |-> b.wt]
        ELSE IF b.oid = None
        THEN [ret |-> Failed(HeadCommitNotFoundError(nm, version_b), didB), wt |-> b.wt]
        ELSE
        LET commit_oid_a == TheOne(a.oid)
            commit_oid_b == TheOne(b.oid)
            tree_b == get_subdirectory_tree(trees[commit_oid_b], toml_path)
        IN  IF ~tree_b.ok THEN [ret |-> Failed(AnyhowError, didB), wt |-> b.wt]
            ELSE [ret |-> [Returned(TRUE, None, None, None)
                              EXCEPT !.info = Some(VersionDiffInfo(UpstreamRepository,
                                                       commit_oid_a, commit_oid_b,
                                                       diff_tree_to_tree(tree_a.tree,
                                                                         tree_b.tree))),
                                     !.effects = didB \cup {"diff"}],
                  wt |-> b.wt]

\* get_git_source_version_diff_info from the resolution of version_a on
diff_info_resolved_a(nm, version_a, version_b, toml_path, a) ==
    LET didA == {"resolve"} \cup (IF a.walked THEN {"checkout"} ELSE {})
    IN  IF ~a.ok THEN [ret |-> Failed(AnyhowError, didA), wt |-> a.wt]
        ELSE IF a.oid = None
        THEN [ret |-> Failed(HeadCommitNotFoundError(nm, version_a), didA), wt |-> a.wt]
        ELSE
        LET commit_oid_a == TheOne(a.oid)
            tree_a == get_subdirectory_tree(trees[commit_oid_a], toml_path)
        IN  IF ~tree_a.ok THEN [ret |-> Failed(AnyhowError, didA), wt |-> a.wt]
            ELSE TheOne({diff_info_resolved_b(nm, version_b, toml_path, a, tree_a, b) :
                            b \in {get_head_commit_oid_for_version(
                                       a.wt, nm, Version_to_string(version_b))}})

\* Result: ret and wt (working tree of the repository left behind).
\* version_a and version_b are semver Versions.  What the resolver hands
\* back is bound once (x \in {call}) and read from there on.
get_git_source_version_diff_info(wt, nm, version_a, version_b) ==
    LET toml == locate_package_toml(wt, nm)
    IN  IF ~toml.ok THEN [ret |-> Failed(AnyhowError, {}), wt |-> wt]
        ELSE
        LET toml_path == Front(toml.path)
        IN  TheOne({diff_info_resolved_a(nm, version_a, version_b, toml_path, a) :
                       a \in {get_head_commit_oid_for_version(
                                  wt, nm, Version_to_string(version_a))}})

(***************************************************************************)
(* get_version_diff_info_between_repos, on two repositories init_git made  *)
(* (a repository is named by the directory it lies in)                     *)
(***************************************************************************)
\* The commit init_git makes in the directory path
InitialCommit(path) == [repo |-> path, message |-> "initial commit"]

\* Mutation: the tree of the directory docs in place of the whole tree
HeadTree_Scoped(ws, path) == get_subdirectory_tree(ws.content[path[1]], <<"docs">>).tree

\* repo.head()?.peel_to_commit()?.tree(): the files of the unpacked package,
\* which init_git added and committed
HeadTree(ws, path) == ws.content[path[1]]

\* Result: ret and ws (the workspace left behind)
get_version_diff_info_between_repos(ws, repo_version_a, repo_version_b) ==
    LET version_a_commit == InitialCommit(repo_version_a)
        version_a_tree == HeadTree(ws, repo_version_a)
        \* make repo_b a branch of repo_a
        head_b == InitialCommit(repo_version_b)
        remote == setup_remote(ws, repo_version_a, repo_version_b)
    IN  IF ~remote.ok
        THEN [ret |-> Failed(AnyhowError, remote.effects), ws |-> remote.ws]
        ELSE
        \* Get head commit for repo_b branch on repo_a
        LET version_b_commit == head_b
            version_b_tree == HeadTree(remote.ws, repo_version_b)
            diff == diff_tree_to_tree(version_a_tree, version_b_tree)
        IN  [ret |-> [Returned(TRUE, None, None, None)
                         EXCEPT !.info = Some(VersionDiffInfo(repo_version_a,
                                                  version_a_commit, version_b_commit, diff)),
                                !.effects = remote.effects \cup {"diff"}],
             ws |-> remote.ws]

(***************************************************************************)
(* The repositories and arguments of the runs                              *)
(***************************************************************************)
Names == {Guppy, GuppySummaries}

\* Tags a repository of the tag-heuristic runs may carry
TagUniverse ==
    {<<"v">> \o V030,
     <<"o", "l", "d", "-", "v">> \o V030,
     Guppy \o <<"-">> \o V030,
     Guppy \o <<"-", "v">> \o V030,
     GuppySummaries \o <<"-">> \o V030,
     CargoGuppy \o <<"-">> \o V030,
     <<"v">> \o V1018,
     V1008,
     <<"v">> \o V008}

TagVersions == {V030, V18, V018, V008, V1008}
TagCommits == 1..2

TagMaps(universe, commits, n) ==
    UNION {[S -> commits] : S \in {T \in SUBSET universe : Cardinality(T) <= n}}

NoTags == [t \in {} |-> 1]

\* Parent lists a commit c may have: none, one earlier commit, or two
ParentsOf(c) ==
    {<<>>} \cup {<<p>> : p \in 1..(c - 1)}
           \cup {pq \in (1..(c - 1)) \X (1..(c - 1)) : pq[1] < pq[2]}

LinearParents(n) == [c \in 1..n |-> IF c = 1 THEN <<>> ELSE <<c - 1>>]

\* Trees of the manifest-walk runs: a package at the repository root
RootTree(m) ==
    IF m = None THEN (<<"lib.rs">> :> FileBlob(1))
    ELSE (<<"lib.rs">> :> FileBlob(1)) @@ (<<"Cargo.toml">> :> TheOne(m))

WalkManifests ==
    {None,
     Some(Manifest("package", Guppy, Some(V010))),
     Some(Manifest("package", Guppy, Some(V020))),
     \* the same version, another line of the manifest edited
     Some([Manifest("package", Guppy, Some(V020)) EXCEPT !.data = 1]),
     Some(Manifest("package", Guppy, Some(V0100))),
     Some(Manifest("package", Guppy, None)),
     Some(Manifest("package", GuppySummaries, Some(V020)))}

WalkTrees == {RootTree(m) : m \in WalkManifests}
WalkVersions == {V020, V0100}

\* Trees of the analyze_crate_source_diff runs: the package lies at the
\* repository root or in the directory guppy of a workspace
Layouts == {<<>>, <<"guppy">>}
PkgFiles == {<<"lib.rs">>, <<"README.md">>, <<"docs", "README.md">>}

PipeManifests ==
    {None,
     Some(Manifest("package", Guppy, Some(V020))),
     Some(Manifest("package", Guppy, Some(V030))),
     Some(Manifest("package", Guppy, None)),
     Some(Manifest("package", GuppySummaries, Some(V030)))}

UpstreamTree(layout, files, m) ==
    [p \in {layout \o f : f \in files} |-> FileBlob(1)]
    @@ (IF m = None THEN EmptyTree ELSE (layout \o <<"Cargo.toml">>) :> TheOne(m))
    @@ (IF layout = <<>> THEN EmptyTree
        ELSE <<"Cargo.toml">> :> Manifest("workspace", <<>>, None))

\* The manifest cargo writes into the tarball differs from the one in the
\* repository.
PublishedManifest == [Manifest("package", Guppy, Some(V030)) EXCEPT !.data = 1]

PubTrees ==
    {[p \in S |-> FileBlob(d[p])] @@ (<<"Cargo.toml">> :> PublishedManifest) :
        S \in SUBSET PkgFiles, d \in [PkgFiles -> 1..MaxContent]}

\* What the registry serves for an older version of the package
OlderManifest == [Manifest("package", Guppy, Some(V020)) EXCEPT !.data = 1]

OlderPubTrees ==
    {[p \in S |-> FileBlob(1)] @@ (<<"Cargo.toml">> :> OlderManifest) : S \in SUBSET PkgFiles}

\* A tarball of cargo package holds the one directory {name}-{version}
PublishedEntries == {Guppy \o <<"-">> \o V030}

PipeTags ==
    TagMaps({<<"v">> \o V030}, 1..2, 1)

Repositories ==
    {None,
     Some(Url(TRUE, Some("github.com"), <<"facebookincubator", "cargo-guppy.git", "tree">>)),
     Some(Url(TRUE, Some("github.com"), <<"facebookincubator">>))}

\* Trees of the runs of the locator, the resolver, the subtree extractor and
\* get_git_source_version_diff_info: a manifest at the root (which may be a
\* file the parser rejects), one in the directory guppy (which exists when
\* the package does)
RootManifests ==
    {None,
     Some(Manifest("workspace", <<>>, None)),
     Some(Manifest("package", Guppy, Some(V030))),
     Some(Manifest("invalid", <<>>, None))}

GuppyManifests ==
    {None,
     Some(Manifest("package", Guppy, Some(V020))),
     Some(Manifest("package", Guppy, Some(V030))),
     Some(Manifest("package", Guppy, None))}

FileAt(path, m) == IF m = None THEN EmptyTree ELSE path :> TheOne(m)

RepoTree(root, guppy) ==
    (<<"README.md">> :> FileBlob(1))
    @@ (IF guppy = None THEN EmptyTree ELSE <<"guppy", "lib.rs">> :> FileBlob(1))
    @@ FileAt(<<"Cargo.toml">>, root)
    @@ FileAt(<<"guppy", "Cargo.toml">>, guppy)

RepoTrees ==
    {RepoTree(r, g) : r \in RootManifests, g \in GuppyManifests}

RepoVersions == {<<0, 1, 0>>, <<0, 2, 0>>, <<0, 3, 0>>}

SubtreePaths ==
    {<<>>, <<"guppy">>, <<"docs">>, <<"README.md">>}

\* Tarballs of the workspace runs: the directory {name}-{version} and,
\* beside it, further top-level entries
Entry(i) ==
    IF i = 1 THEN Guppy \o <<"-">> \o V030 ELSE <<"e", "x", "t", "r", "a">> \o Decimal(i)

Archives == {{Entry(i) : i \in 1..k} : k \in 0..MaxEntries}

\* Trimmed urls of upstream repositories
Urls ==
    {<<"github.com", "facebookincubator", "cargo-guppy">>,
     <<"github.com", "XAMPPRocky", "octocrab">>}

NoCall ==
    /\ op = "none"
    /\ name = <<>>
    /\ version = <<>>
    /\ repository = None
    /\ arg = None
    /\ entry = worktree
    /\ workspace = EmptyWorkspace
    /\ ret = Returned(TRUE, None, None, None)

\* No test thread runs
NoTests ==
    /\ analyses = [t \in {} |-> <<>>]
    /\ serial = None

(***************************************************************************)
(* Calls                                                                   *)
(***************************************************************************)
Repo == <<parents, trees, tags, head, cratesio, archive, registry>>

\* The test threads, which the calls below (run one at a time) leave alone
Harness == <<analyses, serial>>

TagsCall(nm, ver) ==
    /\ op' = "tags"
    /\ name' = nm
    /\ version' = ver
    /\ repository' = None
    /\ arg' = None
    /\ entry' = worktree
    /\ ret' = Returned(TRUE, get_head_commit_oid_for_version_from_tags(tags, nm, ver),
                       None, None)
    /\ UNCHANGED <<Repo, Harness, worktree, workspace>>

WalkCall(nm, ver) ==
    LET r == get_head_commit_oid_for_version_from_cargo_toml(worktree, nm, ver)
    IN  /\ op' = "walk"
        /\ name' = nm
        /\ version' = ver
        /\ repository' = None
        /\ arg' = None
        /\ entry' = worktree
        /\ ret' = [Returned(r.ok, r.oid, None, None) EXCEPT !.effects = {"checkout"}]
        /\ worktree' = r.wt
        /\ UNCHANGED <<Repo, Harness, workspace>>

AnalyzeCall(nm, ver, repo) ==
    LET r == analyze_crate_source_diff(worktree, workspace, nm, ver, repo)
    IN  /\ op' = "analyze"
        /\ name' = nm
        /\ version' = ver
        /\ repository' = repo
        /\ arg' = None
        /\ entry' = worktree
        /\ ret' = r.ret
        /\ worktree' = r.wt
        /\ workspace' = r.ws
        /\ UNCHANGED <<Repo, Harness>>

ResolveCall(nm, ver) ==
    LET r == get_head_commit_oid_for_version(worktree, nm, ver)
    IN  /\ op' = "resolve"
        /\ name' = nm
        /\ version' = ver
        /\ repository' = None
        /\ arg' = None
        /\ entry' = worktree
        /\ ret' = [Returned(r.ok, r.oid, None, None)
                      EXCEPT !.effects = IF r.walked THEN {"checkout"} ELSE {}]
        /\ worktree' = r.wt
        /\ UNCHANGED <<Repo, Harness, workspace>>

LocateCall(nm) ==
    LET r == locate_package_toml(worktree, nm)
    IN  /\ op' = "locate"
        /\ name' = nm
        /\ version' = <<>>
        /\ repository' = None
        /\ arg' = None
        /\ entry' = worktree
        /\ ret' = [Returned(r.ok, None, None, None)
                      EXCEPT !.path = IF r.ok THEN Some(r.path) ELSE None]
        /\ UNCHANGED <<Repo, Harness, worktree, workspace>>

SubtreeCall(tree, path) ==
    LET r == get_subdirectory_tree(tree, path)
    IN  /\ op' = "subtree"
        /\ name' = <<>>
        /\ version' = <<>>
        /\ repository' = None
        /\ arg' = Some([tree |-> tree, path |-> path])
        /\ entry' = worktree
        /\ ret' = [Returned(r.ok, None, None, None)
                      EXCEPT !.tree = IF r.ok THEN Some(r.tree) ELSE None]
        /\ UNCHANGED <<Repo, Harness, worktree, workspace>>

DiffVersionsCall(nm, version_a, version_b) ==
    LET r == get_git_source_version_diff_info(worktree, nm, version_a, version_b)
    IN  /\ op' = "diffVersions"
        /\ name' = nm
        /\ version' = version_a
        /\ repository' = None
        /\ arg' = Some(version_b)
        /\ entry' = worktree
        /\ ret' = r.ret
        /\ worktree' = r.wt
        /\ UNCHANGED <<Repo, Harness, workspace>>

DownloadCall(nm, ver) ==
    LET r == get_cratesio_version(workspace, nm, ver)
    IN  /\ op' = "download"
        /\ name' = nm
        /\ version' = ver
        /\ repository' = None
        /\ arg' = None
        /\ entry' = worktree
        /\ ret' = [Returned(r.ok, None, None, None)
                      EXCEPT !.path = r.path, !.effects = r.effects]
        /\ workspace' = r.ws
        /\ UNCHANGED <<Repo, Harness, worktree>>

CloneCall(nm, url) ==
    LET r == get_git_repo(workspace, nm, url)
    IN  /\ op' = "clone"
        /\ name' = nm
        /\ version' = <<>>
        /\ repository' = None
        /\ arg' = Some(url)
        /\ entry' = worktree
        /\ ret' = [Returned(r.ok, None, None, None)
                      EXCEPT !.path = r.path, !.effects = r.effects]
        /\ workspace' = r.ws
        /\ UNCHANGED <<Repo, Harness, worktree>>

MaterializeCall(nm, ver) ==
    LET r == get_git_repo_for_cratesio_version(workspace, nm, ver)
    IN  /\ op' = "materialize"
        /\ name' = nm
        /\ version' = ver
        /\ repository' = None
        /\ arg' = None
        /\ entry' = worktree
        /\ ret' = [Returned(r.ok, None, None, None)
                      EXCEPT !.path = r.path, !.effects = r.effects]
        /\ workspace' = r.ws
        /\ UNCHANGED <<Repo, Harness, worktree>>

BetweenReposCall(repo_version_a, repo_version_b) ==
    LET r == get_version_diff_info_between_repos(workspace, repo_version_a, repo_version_b)
    IN  /\ op' = "diffAcrossRepositories"
        /\ name' = <<>>
        /\ version' = <<>>
        /\ repository' = None
        /\ arg' = Some([repo_version_a |-> repo_version_a, repo_version_b |-> repo_version_b])
        /\ entry' = worktree
        /\ ret' = r.ret
        /\ workspace' = r.ws
        /\ UNCHANGED <<Repo, Harness, worktree>>

(***************************************************************************)
(* The tests that share the repositories of DIFF_ANALYZER, run by their    *)
(* threads step by step.  Each is #[serial]: it runs with the lock of      *)
(* serial_test held.  A thread runs the manifest-history walk for package  *)
(* guppy; the lines of the walk that touch the working tree (checkout_tree)*)
(* and the ones that read it (locate_package_toml, get_package_version)    *)
(* are steps of their own.                                                 *)
(*   pc:     where the thread is                                           *)
(*   target: the version it walks for                                      *)
(*   i:      index in the revwalk of the commit the loop is at             *)
(*   found:  version_commit                                                *)
(*   reads:  what it has read: the commit it had checked out, the result   *)
(***************************************************************************)
SerialTests == {"test_diff_version_diff", "test_diff_head_commit_not_found_error"}

Queued(ver) ==
    [pc |-> "queued", target |-> ver, i |-> 1, found |-> None, reads |-> {}]

\* Mutation: no test waits for the lock
serial_free_Always(t) == TRUE

\* #[serial]: the test starts when no other test holds the lock
serial_free(t) == serial = None

TestLeaves == <<parents, trees, tags, head, cratesio, archive, registry, workspace,
                op, name, version, repository, arg, entry, ret>>

Enter(t) ==
    /\ analyses[t].pc = "queued"
    /\ serial_free(t)
    /\ serial' = Some(t)
    /\ analyses' = [analyses EXCEPT ![t].pc = "walk"]
    /\ UNCHANGED <<TestLeaves, worktree>>

\* The loop goes on to the next commit without a checkout: a merge commit,
\* or a commit whose diff against its parent touches no Cargo.toml
Passes(c) ==
    \/ IsMergeCommit(c)
    \/ Len(parents[c]) = 1 /\ ~TouchesCargoToml(c)

Skip(t) ==
    LET a == analyses[t]
    IN  /\ a.pc = "walk"
        /\ a.i <= Len(revwalk)
        /\ Passes(revwalk[a.i])
        /\ analyses' = [analyses EXCEPT ![t].i = a.i + 1]
        /\ UNCHANGED <<TestLeaves, worktree, serial>>

\* get_version_at_commit(&commit): repo.checkout_tree(commit)
CheckoutCommit(t) ==
    LET a == analyses[t]
    IN  /\ a.pc = "walk"
        /\ a.i <= Len(revwalk)
        /\ ~Passes(revwalk[a.i])
        /\ worktree' = trees[revwalk[a.i]]
        /\ analyses' = [analyses EXCEPT ![t].pc = "read_post"]
        /\ UNCHANGED <<TestLeaves, serial>>

\* get_version_at_commit(&commit): the manifest is located and read in the
\* working tree; then post_version == version and the parent count decide
ReadPost(t) ==
    LET a == analyses[t]
        c == revwalk[a.i]
        post == version_in_working_tree(worktree, Guppy)
        read == [commit |-> c, version |-> post]
    IN  /\ a.pc = "read_post"
        /\ analyses' =
              [analyses EXCEPT ![t] =
                  IF ~post.ok THEN [a EXCEPT !.pc = "failed", !.reads = @ \cup {read}]
                  ELSE IF post.ver # Some(a.target)
                  THEN [a EXCEPT !.pc = "walk", !.i = @ + 1, !.reads = @ \cup {read}]
                  ELSE IF Len(parents[c]) = 0
                  \* case 3: initial commit
                  THEN [a EXCEPT !.pc = "walk", !.i = @ + 1, !.found = Some(c),
                                 !.reads = @ \cup {read}]
                  ELSE [a EXCEPT !.pc = "checkout_prev", !.reads = @ \cup {read}]]
        /\ UNCHANGED <<TestLeaves, worktree, serial>>

\* get_version_at_commit(&prev_commit): repo.checkout_tree(prev_commit)
CheckoutPrev(t) ==
    LET a == analyses[t]
    IN  /\ a.pc = "checkout_prev"
        /\ worktree' = trees[parents[revwalk[a.i]][1]]
        /\ analyses' = [analyses EXCEPT ![t].pc = "read_prior"]
        /\ UNCHANGED <<TestLeaves, serial>>

\* get_version_at_commit(&prev_commit): the read, then cases 1 and 2
ReadPrior(t) ==
    LET a == analyses[t]
        c == revwalk[a.i]
        prior == version_in_working_tree(worktree, Guppy)
        read == [commit |-> parents[c][1], version |-> prior]
    IN  /\ a.pc = "read_prior"
        /\ analyses' =
              [analyses EXCEPT ![t] =
                  IF ~prior.ok THEN [a EXCEPT !.pc = "failed", !.reads = @ \cup {read}]
                  ELSE IF \/ prior.ver = None
                          \/ VersionGreater(Version_from_str(a.target),
                                            Version_from_str(TheOne(prior.ver)))
                  THEN [a EXCEPT !.pc = "walk", !.i = @ + 1, !.found = Some(c),
                                 !.reads = @ \cup {read}]
                  ELSE [a EXCEPT !.pc = "walk", !.i = @ + 1, !.reads = @ \cup {read}]]
        /\ UNCHANGED <<TestLeaves, worktree, serial>>

\* reset head before return
Restore(t) ==
    LET a == analyses[t]
    IN  /\ a.pc = "walk"
        /\ a.i > Len(revwalk)
        /\ worktree' = trees[head]
        /\ analyses' = [analyses EXCEPT ![t].pc = "returned"]
        /\ UNCHANGED <<TestLeaves, serial>>

\* The test ends (with the commit or with the error) and gives the lock up
Leave(t) ==
    /\ analyses[t].pc \in {"returned", "failed"}
    /\ serial' = IF serial = Some(t) THEN None ELSE serial
    /\ analyses' = [analyses EXCEPT ![t].pc =
                       IF analyses[t].pc = "returned" THEN "passed" ELSE "panicked"]
    /\ UNCHANGED <<TestLeaves, worktree>>

(***************************************************************************)
(* Specifications                                                          *)
(***************************************************************************)
\* analyze_crate_source_diff on an upstream repository of two commits
Init ==
    /\ parents = LinearParents(2)
    /\ \E layout \in Layouts, files \in SUBSET PkgFiles, m1 \in PipeManifests,
          m2 \in PipeManifests :
          trees = [c \in 1..2 |-> UpstreamTree(layout, files, IF c = 1 THEN m1 ELSE m2)]
    /\ tags \in PipeTags
    /\ head = 2
    /\ worktree = trees[head]
    /\ cratesio \in PubTrees
    /\ archive = PublishedEntries
    /\ registry = (<<Guppy, V030>> :> cratesio)
    /\ NoCall
    /\ NoTests

Next == \E nm \in {Guppy}, ver \in {V030}, repo \in Repositories : AnalyzeCall(nm, ver, repo)

Spec == Init /\ [][Next]_vars

\* the tag heuristic on repositories of up to MaxTags tags
InitTags ==
    /\ parents = LinearParents(2)
    /\ trees = [c \in 1..2 |-> RootTree(Some(Manifest("package", Guppy, Some(V030))))]
    /\ tags \in TagMaps(TagUniverse, TagCommits, MaxTags)
    /\ head = 2
    /\ worktree = trees[head]
    /\ cratesio = EmptyTree
    /\ archive = PublishedEntries
    /\ registry = (<<Guppy, V030>> :> cratesio)
    /\ NoCall
    /\ NoTests

NextTags == \E nm \in Names, ver \in TagVersions : TagsCall(nm, ver)

SpecTags == InitTags /\ [][NextTags]_vars

\* the manifest-history walk on histories of up to MaxCommits commits
InitWalk ==
    /\ \E n \in 1..MaxCommits :
          /\ parents \in {f \in [1..n -> ParentsOf(n)] : \A c \in 1..n : f[c] \in ParentsOf(c)}
          /\ trees \in [1..n -> WalkTrees]
          /\ head = n
    /\ tags = NoTags
    /\ worktree = trees[head]
    /\ cratesio = EmptyTree
    /\ archive = PublishedEntries
    /\ registry = (<<Guppy, V030>> :> cratesio)
    /\ NoCall
    /\ NoTests

NextWalk == \E nm \in {Guppy}, ver \in WalkVersions : WalkCall(nm, ver)

SpecWalk == InitWalk /\ [][NextWalk]_vars

\* the locator, the resolver, the subtree extractor and
\* get_git_source_version_diff_info on a repository of two commits
InitRepo ==
    /\ parents = LinearParents(2)
    /\ trees \in [1..2 -> RepoTrees]
    /\ tags \in PipeTags
    /\ head = 2
    /\ worktree = trees[head]
    /\ cratesio = EmptyTree
    /\ archive = PublishedEntries
    /\ registry = (<<Guppy, V030>> :> cratesio)
    /\ NoCall
    /\ NoTests

NextRepo ==
    \/ \E nm \in {Guppy}, ver \in {V020, V030} : ResolveCall(nm, ver)
    \/ \E nm \in {Guppy} : LocateCall(nm)
    \/ \E c \in 1..2, path \in SubtreePaths : SubtreeCall(trees[c], path)
    \/ \E nm \in {Guppy}, version_a \in RepoVersions, version_b \in RepoVersions :
          DiffVersionsCall(nm, version_a, version_b)

SpecRepo == InitRepo /\ [][NextRepo]_vars

\* get_cratesio_version and get_git_repo on one workspace, with a registry
\* whose tarballs hold up to MaxEntries top-level entries
InitWorkspace ==
    /\ parents = LinearParents(2)
    /\ trees = [c \in 1..2 |-> RootTree(Some(Manifest("package", Guppy, Some(V030))))]
    /\ tags = NoTags
    /\ head = 2
    /\ worktree = trees[head]
    /\ cratesio = EmptyTree
    /\ archive \in Archives
    /\ registry = [dp \in Names \X {V020, V030} |->
                       RootTree(Some(Manifest("package", dp[1], Some(dp[2]))))]
    /\ NoCall
    /\ NoTests

NextWorkspace ==
    \/ \E nm \in Names, ver \in {V020, V030} : DownloadCall(nm, ver)
    \/ \E nm \in Names, url \in Urls : CloneCall(nm, url)

SpecWorkspace == InitWorkspace /\ [][NextWorkspace]_vars

\* get_git_repo_for_cratesio_version, get_version_diff_info_between_repos
\* and analyze_crate_source_diff on the repositories of two published
\* versions, in one workspace
InitBetween ==
    /\ parents = LinearParents(2)
    /\ trees = [c \in 1..2 |-> RootTree(Some(Manifest("package", Guppy, Some(V030))))]
    /\ tags = NoTags
    /\ head = 2
    /\ worktree = trees[head]
    /\ cratesio \in PubTrees
    /\ archive = PublishedEntries
    /\ \E older \in OlderPubTrees :
          registry = (<<Guppy, V020>> :> older) @@ (<<Guppy, V030>> :> cratesio)
    /\ NoCall
    /\ NoTests

NextBetween ==
    \/ \E nm \in {Guppy}, ver \in {V020, V030} : MaterializeCall(nm, ver)
    \/ \E repo_version_a \in workspace.committed, repo_version_b \in workspace.committed :
          /\ repo_version_a # repo_version_b
          /\ BetweenReposCall(repo_version_a, repo_version_b)
    \/ \E nm \in {Guppy}, ver \in {V030}, repo \in Repositories : AnalyzeCall(nm, ver, repo)

SpecBetween == InitBetween /\ [][NextBetween]_vars

\* the #[serial] tests that walk the shared repository, on histories of
\* SerialCommits commits
SerialCommits == 2

InitSerial ==
    /\ parents = LinearParents(SerialCommits)
    /\ trees \in [1..SerialCommits -> WalkTrees]
    /\ tags = NoTags
    /\ head = SerialCommits
    /\ worktree = trees[head]
    /\ cratesio = EmptyTree
    /\ archive = PublishedEntries
    /\ registry = (<<Guppy, V030>> :> cratesio)
    /\ NoCall
    /\ analyses \in [SerialTests -> {Queued(ver) : ver \in WalkVersions}]
    /\ serial = None

NextSerial ==
    \E t \in SerialTests :
        \/ Enter(t)
        \/ Skip(t)
        \/ CheckoutCommit(t)
        \/ ReadPost(t)
        \/ CheckoutPrev(t)
        \/ ReadPrior(t)
        \/ Restore(t)
        \/ Leave(t)

SpecSerial == InitSerial /\ [][NextSerial]_vars

(***************************************************************************)
(* Properties of the tag heuristic (checked under SpecTags)                *)
(***************************************************************************)
TagV030 == <<"v">> \o V030
TagOldV030 == <<"o", "l", "d", "-", "v">> \o V030
TagV1018 == <<"v">> \o V1018
TagV008 == <<"v">> \o V008
TagCargoGuppy030 == CargoGuppy \o <<"-">> \o V030
TagGuppySummaries030 == GuppySummaries \o <<"-">> \o V030

\* The candidate tags that match each of the patterns 1..k
SurvivorsOfStage(k) ==
    {t \in DOMAIN tags :
        IsSuffix(version, t) /\ \A j \in 1..k : is_match(j, t, name, version)}

CommitsOfStage(k) == {tags[t] : t \in SurvivorsOfStage(k)}

\* C4: the tag heuristic returns the commit of the first filter stage after
\* which the surviving tags point to exactly one distinct commit, however
\* many tags point to it, and returns nothing when no stage leaves exactly
\* one distinct commit.
C4_FirstStageWithOneCommit ==
    op = "tags" =>
        LET unique == {k \in 1..3 : Cardinality(CommitsOfStage(k)) = 1}
        IN  IF unique = {} THEN ret.oid = None
            ELSE ret.oid = CommitsOfStage(CHOOSE k \in unique : \A j \in unique : k <= j)

\* v0.3.0 and old-v0.3.0 alias one commit, which is returned
W4_AliasedTagsResolve ==
    /\ op = "tags"
    /\ version = V030
    /\ DOMAIN tags = {TagV030, TagOldV030}
    /\ tags[TagV030] = tags[TagOldV030]
    /\ ret.oid = Some(tags[TagV030])

\* C5: with v10.1.8 as the only tag, the tag heuristic asked for version 1.8
\* returns no result.
C5_V1018DoesNotMatch18 ==
    (op = "tags" /\ DOMAIN tags = {TagV1018} /\ version = V18) => ret.oid = None

\* The version at the end of the tag directly follows a digit 1-9
PrecededByDigit19(t, ver) ==
    /\ IsSuffix(ver, t)
    /\ Len(t) > Len(ver)
    /\ t[Len(t) - Len(ver)] \in Digits19

\* C6: a tag in which the version directly follows a digit 1-9 is in no
\* stage's surviving set, and a returned commit is the commit of a tag that
\* is not of this kind; with 10.0.8 as the only tag, version 0.0.8 yields no
\* result.
C6_DigitPrefixedTagsNeverCount ==
    op = "tags" =>
        /\ \A k \in 1..3 : \A t \in DOMAIN hm_after(k, tags, name, version) :
              ~PrecededByDigit19(t, version)
        /\ ret.oid # None =>
              \E t \in DOMAIN tags :
                  IsSuffix(version, t) /\ ~PrecededByDigit19(t, version) /\ tags[t] \in ret.oid
        /\ (DOMAIN tags = {V1008} /\ version = V008) => ret.oid = None

\* 10.0.8 and v0.0.8 point to different commits; version 0.0.8 resolves to
\* the commit of v0.0.8
W6_DigitPrefixedTagDropped ==
    /\ op = "tags"
    /\ version = V008
    /\ DOMAIN tags = {V1008, TagV008}
    /\ tags[V1008] # tags[TagV008]
    /\ ret.oid = Some(tags[TagV008])

\* The tag is the package name, a non-empty run of non-alphanumeric
\* characters, and the version, and nothing else
NameSeparatorVersion(t, nm, ver) ==
    /\ Len(t) > Len(nm) + Len(ver)
    /\ IsPrefix(nm, t)
    /\ IsSuffix(ver, t)
    /\ \A i \in (Len(nm) + 1)..(Len(t) - Len(ver)) : t[i] \notin Letters \cup Digits

\* C7: when the tag heuristic runs its third stage, every tag that survives
\* it consists of exactly the package name, a non-alphanumeric separator and
\* the version.
C7_Stage3ExactName ==
    (op = "tags" /\ ReturnRound(tags, name, version) \notin {1, 2}) =>
        \A t \in DOMAIN hm_after(3, tags, name, version) :
            NameSeparatorVersion(t, name, version)

(***************************************************************************)
(* Properties of the manifest-history walk (checked under SpecWalk)        *)
(***************************************************************************)
\* The selection rule of the walk for the commit c and the arguments of
\* the call
SatisfiesSelectionRule(c) ==
    /\ Len(parents[c]) <= 1
    /\ get_version_at_commit(c, name).ver = Some(version)
    /\ Len(parents[c]) = 1 =>
          /\ TouchesCargoToml(c)
          /\ LET prior == get_version_at_commit(parents[c][1], name)
             IN  /\ prior.ok
                 /\ \/ prior.ver = None
                    \/ VersionGreater(Version_from_str(version),
                                      Version_from_str(TheOne(prior.ver)))

\* C8: when commits reachable from head satisfy the selection rule for the
\* target version, the walk returns the one closest to head.
C8_ClosestToHead ==
    (op = "walk" /\ ret.ok) =>
        LET satisfying == {c \in Reachable({head}) : SatisfiesSelectionRule(c)}
        IN  satisfying # {} =>
                ret.oid = Some(CHOOSE c \in satisfying : \A d \in satisfying : d <= c)

\* C9: the walk leaves the working tree as it was at entry, whether it
\* returns a commit, no commit, or an error.
C9_WalkRestoresWorkingTree ==
    op = "walk" => worktree = entry

(***************************************************************************)
(* Properties of analyze_crate_source_diff (checked under Spec)            *)
(***************************************************************************)
\* The call compared the trees: release commit resolved, manifest located
Analyzed ==
    /\ op = "analyze"
    /\ ret.ok
    /\ ret.report # None
    /\ TheOne(ret.report).release_commit_analyzed = Some(TRUE)

ReportedStats == TheOne(TheOne(ret.report).file_diff_stats)
ReportedDifferent == TheOne(ret.report).is_different

\* The tree of the release commit scoped to the directory of the manifest
ScopedUpstream ==
    LET release == trees[TheOne(ret.checked_out)]
    IN  get_subdirectory_tree(release, Front(locate_package_toml(release, name).path)).tree

ModifiedPaths ==
    {p \in DOMAIN ScopedUpstream \cap DOMAIN cratesio : ScopedUpstream[p] # cratesio[p]}

\* C1: when the trees were compared, is_different is true exactly when
\* files_added or files_modified is non-empty; deletions alone give false.
C1_DifferentIffAddedOrModified ==
    Analyzed =>
        /\ ReportedDifferent # None
        /\ TheOne(ReportedDifferent) <=>
              (ReportedStats.files_added # {} \/ ReportedStats.files_modified # {})

W1_OnlyDeletions ==
    /\ Analyzed
    /\ ReportedStats.files_deleted # {}
    /\ ReportedStats.files_added = {}
    /\ ReportedStats.files_modified = {}
    /\ ReportedDifferent = Some(FALSE)

\* C2 as stated: when the upstream subtree has one file the published tree
\* lacks and one file whose content differs, is_different is true, the
\* former is in files_added and the latter in files_modified.
C2_UpstreamAddedAndModified ==
    Analyzed =>
        LET upstreamOnly == DOMAIN ScopedUpstream \ DOMAIN cratesio
        IN  (Cardinality(upstreamOnly) = 1 /\ Cardinality(ModifiedPaths) = 1) =>
                /\ ReportedDifferent = Some(TRUE)
                /\ upstreamOnly \subseteq ReportedStats.files_added
                /\ ModifiedPaths \subseteq ReportedStats.files_modified

\* C2 amended: when the published tree has a file the upstream subtree lacks
\* and a file whose content differs, neither at an ignore-listed path,
\* is_different is true, the former is in files_added and the latter in
\* files_modified.
C2_PublishedAddedAndModified ==
    Analyzed =>
        \A a \in DOMAIN cratesio \ DOMAIN ScopedUpstream, m \in ModifiedPaths :
            (~IsIgnored(a) /\ ~IsIgnored(m)) =>
                /\ ReportedDifferent = Some(TRUE)
                /\ a \in ReportedStats.files_added
                /\ m \in ReportedStats.files_modified

W2_PublishedAddedAndModified ==
    /\ Analyzed
    /\ <<"docs", "README.md">> \in DOMAIN cratesio \ DOMAIN ScopedUpstream
    /\ <<"lib.rs">> \in ModifiedPaths
    /\ <<"docs", "README.md">> \in ReportedStats.files_added
    /\ <<"lib.rs">> \in ReportedStats.files_modified
    /\ ReportedDifferent = Some(TRUE)

AllReportedPaths ==
    ReportedStats.files_added \cup ReportedStats.files_modified
        \cup ReportedStats.files_deleted

\* C3 as stated: no reported path has an ignore-listed file name, in
\* whatever directory of the compared trees the file lies.
C3_NoIgnoredFileName ==
    Analyzed => \A p \in AllReportedPaths : Last(p) \notin ignore_paths

\* C3 amended: no reported path is itself an ignore-listed name, that is a
\* file of such a name at the root of the compared trees, whatever its
\* change.
C3_NoIgnoredRootPath ==
    Analyzed => \A p \in AllReportedPaths : \A n \in ignore_paths : p # <<n>>

\* README.md at the root was added, deleted or modified and is not reported,
\* while docs/README.md is
W3_RootReadmeDropped ==
    /\ Analyzed
    /\ \/ <<"README.md">> \in DOMAIN cratesio \ DOMAIN ScopedUpstream
       \/ <<"README.md">> \in DOMAIN ScopedUpstream \ DOMAIN cratesio
       \/ <<"README.md">> \in ModifiedPaths
    /\ <<"README.md">> \notin AllReportedPaths
    /\ <<"docs", "README.md">> \in AllReportedPaths

\* C10: every return after the upstream repository was checked out to the
\* release commit leaves its working tree as it was at the call.
C10_AnalyzeRestoresWorkingTree ==
    (op = "analyze" /\ ret.checked_out # None) => worktree = entry

(***************************************************************************)
(* Properties of the outcomes of analyze_crate_source_diff (under Spec)    *)
(***************************************************************************)
MaterialisingEffects == {"download", "clone", "remote", "fetch"}

\* C11: called without a repository URL, analyze_crate_source_diff returns
\* Ok with a report that holds the name and the version only (commit found,
\* commit analyzed, is_different and the statistics are absent), and it
\* materialises no tarball, makes no clone and wires no remote.
C11_NoRepositoryNameAndVersionOnly ==
    (op = "analyze" /\ repository = None) =>
        /\ ret.ok
        /\ ret.report = Some([name |-> name, version |-> version,
                               release_commit_found |-> None,
                               release_commit_analyzed |-> None,
                               is_different |-> None, file_diff_stats |-> None])
        /\ ret.effects \cap MaterialisingEffects = {}

W11_NoRepository ==
    /\ op = "analyze"
    /\ repository = None
    /\ ret.ok
    /\ workspace = EmptyWorkspace

\* The call got as far as the resolver, and neither the tags nor the
\* manifest history yield a commit for the version
NeitherStrategyResolves ==
    /\ op = "analyze"
    /\ "resolve" \in ret.effects
    /\ get_head_commit_oid_for_version_from_tags(tags, name, version) = None
    /\ LET w == get_head_commit_oid_for_version_from_cargo_toml(entry, name, version)
       IN  w.ok /\ w.oid = None

PublishedRepo(nm, ver) ==
    <<nm \o <<"-">> \o ver \o CratesioSuffix, TheOne(archive)>>

\* C12: when neither strategy resolves a release commit,
\* analyze_crate_source_diff returns Ok with a report whose
\* release_commit_found is false and whose other outcome fields are absent,
\* and it stops there: the published-side repository has no remote to the
\* upstream repository and no diff is computed.
C12_NotFoundStops ==
    NeitherStrategyResolves =>
        /\ ret.ok
        /\ ret.report = Some([name |-> name, version |-> version,
                               release_commit_found |-> Some(FALSE),
                               release_commit_analyzed |-> None,
                               is_different |-> None, file_diff_stats |-> None])
        /\ ret.effects \cap {"remote", "fetch", "diff"} = {}
        /\ PublishedRepo(name, version) \notin DOMAIN workspace.remotes

W12_NotFound ==
    /\ NeitherStrategyResolves
    /\ ret.report # None
    /\ PublishedRepo(name, version) \in workspace.committed
    /\ DOMAIN workspace.clones # {}

\* The upstream repository was checked out to the release commit and no
\* manifest of the package is located in that tree
ManifestNotLocated ==
    /\ op = "analyze"
    /\ ret.checked_out # None
    /\ ~locate_package_toml(trees[TheOne(ret.checked_out)], name).ok

\* C13: when the release commit is resolved and the manifest of the package
\* cannot be located in the checkout of that commit,
\* analyze_crate_source_diff returns Ok with the report
\* (release_commit_found true, release_commit_analyzed false, is_different
\* absent, statistics absent): neither an error nor a difference.
C13_NotLocatedIsNotAnalyzed ==
    ManifestNotLocated =>
        /\ ret.ok
        /\ ret.report = Some([name |-> name, version |-> version,
                               release_commit_found |-> Some(TRUE),
                               release_commit_analyzed |-> Some(FALSE),
                               is_different |-> None, file_diff_stats |-> None])

W13_NotLocated ==
    /\ ManifestNotLocated
    /\ ret.oid # None
    /\ ret.report # None

\* C16: the manifest-history walk never returns a merge commit (a commit
\* of more than one parent), even when the merge changes the manifest and
\* the version declared at it is the target version.
C16_WalkNeverReturnsMerge ==
    (op = "walk" /\ ret.oid # None) => Len(parents[TheOne(ret.oid)]) <= 1

\* head is a merge whose manifest differs from that of both parents and
\* declares the target version, and the walk returns another commit or none
W16_MergeAtTargetSkipped ==
    /\ op = "walk"
    /\ ret.ok
    /\ Len(parents[head]) = 2
    /\ \A i \in 1..2 : trees[parents[head][i]] # trees[head]
    /\ get_version_at_commit(head, name).ver = Some(version)
    /\ ret.oid # Some(head)

(***************************************************************************)
(* Properties of get_git_source_version_diff_info, the resolver, the        *)
(* locator and the subtree extractor (checked under SpecRepo)              *)
(***************************************************************************)
\* What the resolver yields for a version in the repository of the call
Resolution(ver) == get_head_commit_oid_for_version(entry, name, Version_to_string(ver))

Unresolved(ver) == Resolution(ver).ok /\ Resolution(ver).oid = None

Resolved(ver) == Resolution(ver).ok /\ Resolution(ver).oid # None

\* C14 as stated: whenever version_a or version_b resolves to no commit,
\* get_git_source_version_diff_info fails with the typed
\* HeadCommitNotFoundError that carries the package name and the version
\* that did not resolve: version_a when it does not resolve (also when
\* neither does), version_b when only version_b does not; never with a
\* generic error.
C14_TypedErrorWheneverUnresolved ==
    op = "diffVersions" =>
        /\ Unresolved(version) =>
              (~ret.ok /\ ret.error = Some(HeadCommitNotFoundError(name, version)))
        /\ (Resolved(version) /\ Unresolved(TheOne(arg))) =>
              (~ret.ok /\ ret.error = Some(HeadCommitNotFoundError(name, TheOne(arg))))

\* The manifest of the package is located in the working tree of the call
LocatedAtCall == locate_package_toml(entry, name).ok

\* The tree of the commit version_a resolves to holds the directory of the
\* manifest located at the call
ScopedA ==
    get_subdirectory_tree(trees[TheOne(Resolution(version).oid)],
                          Front(locate_package_toml(entry, name).path)).ok

\* C14 amended: when the manifest of the package is located in the working
\* tree of the call, the function fails with the typed error carrying the
\* name and version_a when version_a resolves to no commit (also when
\* neither does); when version_a resolves and the tree of its commit holds
\* the directory of that manifest, it fails with the typed error carrying
\* the name and version_b when version_b resolves to no commit.
C14_TypedErrorWhenResolutionReached ==
    (op = "diffVersions" /\ LocatedAtCall) =>
        /\ Unresolved(version) =>
              (~ret.ok /\ ret.error = Some(HeadCommitNotFoundError(name, version)))
        /\ (Resolved(version) /\ ScopedA /\ Unresolved(TheOne(arg))) =>
              (~ret.ok /\ ret.error = Some(HeadCommitNotFoundError(name, TheOne(arg))))

\* only version_b does not resolve, and the error names it
W14_OnlyBUnresolved ==
    /\ op = "diffVersions"
    /\ LocatedAtCall
    /\ Resolved(version)
    /\ Unresolved(TheOne(arg))
    /\ ret.error = Some(HeadCommitNotFoundError(name, TheOne(arg)))

\* C15: the resolver tries the tags first: a commit the tags yield is
\* returned as it is and the manifest-history walk is not run (nothing is
\* checked out); the walk is run only when the tags yield nothing, and its
\* result is returned; when both yield nothing the resolver returns Ok(None).
C15_TagsBeforeWalk ==
    op = "resolve" =>
        LET fromTags == get_head_commit_oid_for_version_from_tags(tags, name, version)
            fromToml == get_head_commit_oid_for_version_from_cargo_toml(entry, name, version)
        IN  /\ fromTags # None =>
                  /\ ret.ok /\ ret.oid = fromTags
                  /\ "checkout" \notin ret.effects
                  /\ worktree = entry
            /\ "checkout" \in ret.effects => fromTags = None
            /\ fromTags = None =>
                  /\ "checkout" \in ret.effects
                  /\ ret.ok = fromToml.ok
                  /\ ret.oid = fromToml.oid
            /\ (fromTags = None /\ fromToml.ok /\ fromToml.oid = None) =>
                  (ret.ok /\ ret.oid = None)

\* the tags yield commit 1 where the walk would yield commit 2
W15_TagWinsOverWalk ==
    /\ op = "resolve"
    /\ get_head_commit_oid_for_version_from_tags(tags, name, version) = Some(1)
    /\ get_head_commit_oid_for_version_from_cargo_toml(entry, name, version).oid = Some(2)
    /\ ret.oid = Some(1)
    /\ "checkout" \notin ret.effects

\* The candidates of the locator in the working tree of the call, in walk
\* order, and the positions of those that are manifests of the package
Candidates == get_all_paths_for_filename(entry)

MatchingCandidates ==
    {i \in 1..Len(Candidates) :
        entry[Candidates[i]].role = "package" /\ entry[Candidates[i]].pkg = name}

\* C17: locate_package_toml succeeds if and only if some candidate manifest
\* of the working tree declares the role package and the package name, and
\* then returns the path, relative to the repository, of the first such
\* candidate in walk order; a workspace manifest is never accepted; with no
\* such candidate it fails.
C17_LocateFirstMatch ==
    op = "locate" =>
        /\ MatchingCandidates # {} =>
              /\ ret.ok
              /\ ret.path = Some(Candidates[CHOOSE i \in MatchingCandidates :
                                                \A j \in MatchingCandidates : i <= j])
        /\ MatchingCandidates = {} => ~ret.ok
        /\ ret.ok => entry[TheOne(ret.path)].role # "workspace"

\* The tree that lies at a directory of a tree
NestedTree(tree, path) ==
    LET below == {p \in DOMAIN tree : Len(p) > Len(path) /\ SubSeq(p, 1, Len(path)) = path}
    IN  [q \in {SubSeq(p, Len(path) + 1, Len(p)) : p \in below} |-> tree[path \o q]]

IsDirectory(tree, path) ==
    \E p \in DOMAIN tree : Len(p) > Len(path) /\ SubSeq(p, 1, Len(path)) = path

\* C18: get_subdirectory_tree with the root (the empty path) returns the
\* tree it was given, of the same id; with a path other than the root that
\* is a directory of the tree it returns the tree nested at that path.
C18_RootIsIdentityElseNested ==
    op = "subtree" =>
        LET tree == TheOne(arg).tree
            path == TheOne(arg).path
        IN  /\ path = <<>> => (ret.ok /\ ret.tree = Some(tree))
            /\ (path # <<>> /\ IsDirectory(tree, path)) =>
                  (ret.ok /\ ret.tree = Some(NestedTree(tree, path)))

W18_RootAndNested ==
    /\ op = "subtree"
    /\ TheOne(arg).path = <<>>
    /\ ret.tree = Some(TheOne(arg).tree)
    /\ IsDirectory(TheOne(arg).tree, <<"guppy">>)
    /\ NestedTree(TheOne(arg).tree, <<"guppy">>) # TheOne(arg).tree

(***************************************************************************)
(* Properties of the workspace (checked under SpecWorkspace)               *)
(***************************************************************************)
TarballDir(nm, ver) == nm \o <<"-">> \o ver \o CratesioSuffix

CloneDir(nm) == nm \o SourceSuffix

\* An earlier get_cratesio_version(nm, ver) has succeeded in workspace ws
Materialized(ws, nm, ver) ==
    /\ TarballDir(nm, ver) \in DOMAIN ws.extracted
    /\ Cardinality(ws.extracted[TarballDir(nm, ver)]) = 1

\* An earlier get_git_repo(nm, url) has succeeded in workspace ws
Cloned(ws, nm, url) ==
    /\ CloneDir(nm) \in DOMAIN ws.clones
    /\ ws.clones[CloneDir(nm)] = url

\* C19: within one workspace, after a first successful call, a second
\* get_cratesio_version with the same name and version downloads nothing
\* and returns the same path, and a second get_git_repo with the same name
\* and url clones nothing and returns a handle to the same clone on disk.
C19_SecondCallReuses ==
    [][/\ (op' = "download" /\ ret'.ok) =>
             ret'.path = Some(<<TarballDir(name', version'),
                                TheOne(workspace'.extracted[TarballDir(name', version')])>>)
       /\ (op' = "download" /\ Materialized(workspace, name', version')) =>
             /\ ret'.ok
             /\ "download" \notin ret'.effects
             /\ ret'.path = Some(<<TarballDir(name', version'),
                                   TheOne(workspace.extracted[TarballDir(name', version')])>>)
             /\ workspace' = workspace
       /\ (op' = "clone" /\ ret'.ok) => ret'.path = Some(<<CloneDir(name')>>)
       /\ (op' = "clone" /\ Cloned(workspace, name', TheOne(arg'))) =>
             /\ ret'.ok
             /\ "clone" \notin ret'.effects
             /\ ret'.path = Some(<<CloneDir(name')>>)
             /\ workspace' = workspace
      ]_vars

\* a tarball and a clone are in the workspace, and the last call reused one
W19_Reused ==
    /\ op \in {"download", "clone"}
    /\ ret.ok
    /\ ret.effects = {}
    /\ \E nm \in Names, ver \in {V020, V030} : Materialized(workspace, nm, ver)
    /\ \E nm \in Names, url \in Urls : Cloned(workspace, nm, url)

\* C20: get_cratesio_version returns a path only when the extraction
\* directory holds exactly one top-level entry, and the path is that entry;
\* with no entry or with two or more it fails, whether the directory was
\* extracted by this call or reused.
C20_ExactlyOneEntry ==
    op = "download" =>
        LET entries == workspace.extracted[TarballDir(name, version)]
        IN  /\ ret.ok <=> Cardinality(entries) = 1
            /\ ret.ok => ret.path = Some(<<TarballDir(name, version), TheOne(entries)>>)
            /\ ~ret.ok => ret.path = None

\* a reused extraction directory of several entries is refused again
W20_ReusedLayoutRefused ==
    /\ op = "download"
    /\ "download" \notin ret.effects
    /\ Cardinality(workspace.extracted[TarballDir(name, version)]) > 1
    /\ ~ret.ok

(***************************************************************************)
(* Properties of get_version_diff_info_between_repos (checked under        *)
(* SpecBetween)                                                            *)
(***************************************************************************)
\* What a diff from the tree old to the tree new says of the path p
WholeTreeDelta(old, new, p) ==
    IF p \in DOMAIN new \ DOMAIN old THEN Some("Added")
    ELSE IF p \in DOMAIN old \ DOMAIN new THEN Some("Deleted")
    ELSE IF p \in DOMAIN old /\ old[p] # new[p] THEN Some("Modified")
    ELSE None

PublishedVersions == {V020, V030}

\* C21: get_version_diff_info_between_repos(repo_a, repo_b), when it
\* returns Ok, has made repo_b the remote of repo_a and returns a
\* VersionDiffInfo whose repo is repo_a, whose commit_a is the head commit
\* of repo_a, whose commit_b is the head commit of repo_b, and whose diff
\* says of every path of the two whole head trees (the packages as the
\* registry serves them) whether it is added, deleted or modified from
\* repo_a to repo_b: no directory of the trees is taken in their place.
C21_BetweenReposDiffsWholeHeadTrees ==
    (op = "diffAcrossRepositories" /\ ret.ok) =>
        \A va \in PublishedVersions, vb \in PublishedVersions :
            (/\ TheOne(arg).repo_version_a = PublishedRepo(Guppy, va)
             /\ TheOne(arg).repo_version_b = PublishedRepo(Guppy, vb)) =>
                LET repo_a == PublishedRepo(Guppy, va)
                    repo_b == PublishedRepo(Guppy, vb)
                    tree_a == registry[<<Guppy, va>>]
                    tree_b == registry[<<Guppy, vb>>]
                    info == TheOne(ret.info)
                IN  /\ repo_a \in DOMAIN workspace.remotes
                    /\ workspace.remotes[repo_a] = repo_b
                    /\ info.repo = repo_a
                    /\ info.commit_a = [repo |-> repo_a, message |-> "initial commit"]
                    /\ info.commit_b = [repo |-> repo_b, message |-> "initial commit"]
                    /\ \A p \in DOMAIN tree_a \cup DOMAIN tree_b :
                          \A st \in {"Added", "Deleted", "Modified"} :
                              [path |-> p, status |-> st] \in info.diff
                                  <=> WholeTreeDelta(tree_a, tree_b, p) = Some(st)
                    /\ \A d \in info.diff : d.path \in DOMAIN tree_a \cup DOMAIN tree_b

\* Version 0.2.0 diffed against version 0.3.0: a file at the root of the
\* package is modified and one in the directory docs is added.
W21_RootAndNestedDeltas ==
    /\ op = "diffAcrossRepositories"
    /\ ret.ok
    /\ TheOne(arg).repo_version_a = PublishedRepo(Guppy, V020)
    /\ TheOne(arg).repo_version_b = PublishedRepo(Guppy, V030)
    /\ [path |-> <<"lib.rs">>, status |-> "Modified"] \in TheOne(ret.info).diff
    /\ [path |-> <<"docs", "README.md">>, status |-> "Added"] \in TheOne(ret.info).diff
    /\ [path |-> <<"Cargo.toml">>, status |-> "Modified"] \in TheOne(ret.info).diff

(***************************************************************************)
(* The selection rule of the manifest-history walk (checked under SpecWalk)*)
(***************************************************************************)
\* The state of the loop when it comes to the k-th commit of the revwalk
StateAt(k) ==
    WalkFrom(SubSeq(revwalk, 1, k - 1), 1,
             [wt |-> entry, found |-> None, err |-> FALSE], name, version)

\* The iteration on the k-th commit of the revwalk is run and makes that
\* commit the version_commit
Assigns(k) ==
    /\ ~StateAt(k).err
    /\ WalkCommit(StateAt(k), revwalk[k], name, version).found = Some(revwalk[k])

\* The version the manifest of the package declares at the commit c, if the
\* manifest is located there and declares one
DeclaredAt(c) == get_version_at_commit(c, name).ver

\* Semantic-version order of two version strings major.minor.patch
SemverLess(v, w) ==
    LET a == TheOne(Version_from_str(v))
        b == TheOne(Version_from_str(w))
    IN  \/ a[1] < b[1]
        \/ a[1] = b[1] /\ a[2] < b[2]
        \/ a[1] = b[1] /\ a[2] = b[2] /\ a[3] < b[3]

\* C22: of the commits the loop of the walk comes to, one with one parent
\* is made the result only if its diff against the parent touches a
\* manifest file, the version declared at it is the target and the version
\* declared at the parent is absent or strictly less in semantic-version
\* order; one whose parent declares an equal or greater version is never
\* made the result, and neither is a merge commit; one without parents is
\* made the result exactly when the version declared at it is the target.
\* A commit the walk returns is one that was made the result.
C22_WalkSelectionRule ==
    op = "walk" =>
        /\ \A k \in 1..Len(revwalk) :
              LET c == revwalk[k]
              IN  /\ (Len(parents[c]) = 1 /\ Assigns(k)) =>
                        /\ TouchesCargoToml(c)
                        /\ DeclaredAt(c) = Some(version)
                        /\ LET prior == DeclaredAt(parents[c][1])
                           IN  prior = None \/ SemverLess(TheOne(prior), version)
                  /\ (\E i \in 1..Len(parents[c]) :
                         LET prior == DeclaredAt(parents[c][i])
                         IN  prior # None /\ ~SemverLess(TheOne(prior), version))
                        => ~Assigns(k)
                  /\ Len(parents[c]) > 1 => ~Assigns(k)
                  /\ (Len(parents[c]) = 0 /\ ~StateAt(k).err) =>
                        (Assigns(k) <=> DeclaredAt(c) = Some(version))
        /\ (ret.ok /\ ret.oid # None) =>
              \E k \in 1..Len(revwalk) : revwalk[k] = TheOne(ret.oid) /\ Assigns(k)

\* A walk for 0.2.0 over 1 <- 2 <- 3: commit 1 declares 0.2.0, commit 2
\* edits the manifest and keeps 0.2.0 (equal version at the parent: not
\* made the result), commit 3 declares 0.10.0; commit 1, without parents,
\* is made the result and returned.
W22_EqualParentVersionPassedOver ==
    /\ op = "walk"
    /\ version = V020
    /\ Len(revwalk) = 3
    /\ parents[3] = <<2>> /\ parents[2] = <<1>> /\ parents[1] = <<>>
    /\ DeclaredAt(1) = Some(V020)
    /\ DeclaredAt(2) = Some(V020)
    /\ DeclaredAt(3) = Some(V0100)
    /\ TouchesCargoToml(2)
    /\ ~Assigns(2)
    /\ Assigns(3)
    /\ ret.oid = Some(1)

(***************************************************************************)
(* The tests that share a repository (checked under SpecSerial)            *)
(***************************************************************************)
\* The thread t is inside its walk: it has entered and not yet left
InWalk(t) ==
    analyses[t].pc \in {"walk", "read_post", "checkout_prev", "read_prior", "returned", "failed"}

\* The commit the thread t has checked out and not yet read, if any
AwaitingRead(t) ==
    LET a == analyses[t]
    IN  IF a.pc = "read_post" THEN Some(revwalk[a.i])
        ELSE IF a.pc = "read_prior" THEN Some(parents[revwalk[a.i]][1])
        ELSE None

\* The version package guppy declares at the commit c
GuppyDeclaredAt(c) == get_version_at_commit(c, Guppy).ver

\* C23: two analyses of the same repository are never inside their walks
\* at the same time; while an analysis is between a checkout and its read
\* of the working tree, the working tree is the tree of the commit that
\* analysis checked out; and every version an analysis has read is the one
\* the manifest declares at the commit that analysis had checked out.
C23_AnalysesOfOneRepositorySerialized ==
    /\ \A t \in DOMAIN analyses, u \in DOMAIN analyses :
          (InWalk(t) /\ InWalk(u)) => t = u
    /\ \A t \in DOMAIN analyses :
          /\ AwaitingRead(t) # None => worktree = trees[TheOne(AwaitingRead(t))]
          /\ \A r \in analyses[t].reads :
                r.version = get_version_at_commit(r.commit, Guppy)

\* One test has walked for 0.2.0 and passed; the other is between the
\* checkout of the parent commit and its read, having read another
\* version at the head commit than the parent declares.
W23_SecondWalkAfterFirst ==
    /\ analyses # <<>>
    /\ analyses["test_diff_version_diff"].pc = "passed"
    /\ analyses["test_diff_version_diff"].reads # {}
    /\ analyses["test_diff_head_commit_not_found_error"].pc = "read_prior"
    /\ GuppyDeclaredAt(1) # GuppyDeclaredAt(2)

(***************************************************************************)
(* The shapes of the report (checked under Spec)                           *)
(***************************************************************************)
\* release_commit_found, release_commit_analyzed, and whether is_different
\* and file_diff_stats are present, of the report r
ShapeOf(r) ==
    <<r.release_commit_found, r.release_commit_analyzed,
      r.is_different # None, r.file_diff_stats # None>>

ReportShapes ==
    {<<None, None, FALSE, FALSE>>,
     <<Some(FALSE), None, FALSE, FALSE>>,
     <<Some(TRUE), Some(FALSE), FALSE, FALSE>>,
     <<Some(TRUE), Some(TRUE), TRUE, TRUE>>}

\* C24: every report analyze_crate_source_diff returns has one of four
\* shapes: nothing filled in; release_commit_found = false alone;
\* release_commit_found = true with release_commit_analyzed = false; or
\* both true with is_different and file_diff_stats present.  Hence
\* release_commit_analyzed is present only with release_commit_found =
\* true, and is_different and file_diff_stats are present together and
\* only with release_commit_analyzed = true.
C24_ReportShapes ==
    (op = "analyze" /\ ret.report # None) =>
        LET r == TheOne(ret.report)
        IN  /\ ShapeOf(r) \in ReportShapes
            /\ r.release_commit_analyzed # None => r.release_commit_found = Some(TRUE)
            /\ (r.is_different # None) <=> (r.file_diff_stats # None)
            /\ r.is_different # None => r.release_commit_analyzed = Some(TRUE)

\* A report of the last shape: the trees were compared and differ
W24_AllFilledIn ==
    /\ op = "analyze"
    /\ ret.ok
    /\ ret.report # None
    /\ ShapeOf(TheOne(ret.report)) = <<Some(TRUE), Some(TRUE), TRUE, TRUE>>
    /\ TheOne(ret.report).is_different = Some(TRUE)
    /\ TheOne(TheOne(ret.report).file_diff_stats).files_added # {}

(***************************************************************************)
(* The key of the clone cache (checked under SpecWorkspace)                *)
(***************************************************************************)
\* The url the directory {name}-source of workspace ws was cloned from
ClonedFrom(ws, nm) == ws.clones[CloneDir(nm)]

\* C25: once get_git_repo(name, url1) has succeeded in a workspace, a
\* call get_git_repo(name, url2) with another url clones nothing, leaves
\* the clone of url1 in place and returns the handle to it.
C25_CloneCacheKeyedByName ==
    [][(/\ op' = "clone"
        /\ CloneDir(name') \in DOMAIN workspace.clones
        /\ ClonedFrom(workspace, name') # TheOne(arg')) =>
            /\ ret'.ok
            /\ "clone" \notin ret'.effects
            /\ ret'.path = Some(<<CloneDir(name')>>)
            /\ ClonedFrom(workspace', name') = ClonedFrom(workspace, name')
            /\ ClonedFrom(workspace', name') # TheOne(arg')
      ]_vars

\* The last call asked for the repository of one url and was handed the
\* clone of the other
W25_OtherUrlHandedBack ==
    /\ op = "clone"
    /\ ret.ok
    /\ ret.effects = {}
    /\ ret.path = Some(<<CloneDir(name)>>)
    /\ ClonedFrom(workspace, name) # TheOne(arg)
    /\ ClonedFrom(workspace, name) \in Urls

(***************************************************************************)
(* The directory get_git_source_version_diff_info scopes to (checked under *)
(* SpecRepo)                                                               *)
(***************************************************************************)
\* The directory of the manifest of the package in the working tree as it
\* was when the function was called
DirectoryAtCall == Front(locate_package_toml(entry, name).path)

\* The tree at the directory dir of the tree
TreeAt(tree, dir) == IF dir = <<>> THEN tree ELSE NestedTree(tree, dir)

\* C26: get_git_source_version_diff_info takes the directory of the
\* package from the manifest located in the working tree as it is when the
\* function is called; when it returns Ok the diff is the one from the tree
\* of commit_a at that directory to the tree of commit_b at that same
\* directory, whatever the manifests at those commits say; when no
\* manifest is located in the working tree of the call it fails having
\* resolved no version and checked nothing out.
C26_DirectoryFromWorkingTreeAtCall ==
    op = "diffVersions" =>
        /\ ~LocatedAtCall =>
              (~ret.ok /\ ret.effects = {} /\ worktree = entry)
        /\ ret.ok =>
              LET info == TheOne(ret.info)
              IN  /\ LocatedAtCall
                  /\ info.diff =
                        {[path |-> p, status |-> TheOne(WholeTreeDelta(
                              TreeAt(trees[info.commit_a], DirectoryAtCall),
                              TreeAt(trees[info.commit_b], DirectoryAtCall), p))] :
                           p \in {q \in DOMAIN TreeAt(trees[info.commit_a], DirectoryAtCall)
                                        \cup DOMAIN TreeAt(trees[info.commit_b], DirectoryAtCall) :
                                     WholeTreeDelta(
                                         TreeAt(trees[info.commit_a], DirectoryAtCall),
                                         TreeAt(trees[info.commit_b], DirectoryAtCall), q) # None}}

\* The manifest lies at the root in the working tree of the call and in the
\* directory guppy at the commit of version_b: the trees are compared from
\* the root all the same, so that guppy/Cargo.toml is in the diff.
W26_ManifestElsewhereAtCommit ==
    /\ op = "diffVersions"
    /\ ret.ok
    /\ DirectoryAtCall = <<>>
    /\ locate_package_toml(trees[TheOne(ret.info).commit_b], name).ok
    /\ locate_package_toml(trees[TheOne(ret.info).commit_b], name).path
           = <<"guppy", "Cargo.toml">>
    /\ \E d \in TheOne(ret.info).diff : d.path = <<"guppy", "Cargo.toml">>

(***************************************************************************)
(* Wiring a repository twice (checked under SpecBetween)                   *)
(***************************************************************************)
\* The repository has the remote "source"
Wired(ws, repo) == repo \in DOMAIN ws.remotes

\* C27: a repository that has been wired (it has the remote "source") is
\* not wired again: get_version_diff_info_between_repos on a repo_a that
\* is wired, and analyze_crate_source_diff with a repository url for a
\* published-side repository that is wired, return an error, fetch
\* nothing and leave the remote as it was; a call that does wire finds
\* the repository without remote and leaves it with one.
C27_WiredAtMostOnce ==
    [][/\ (/\ op' = "diffAcrossRepositories"
           /\ Wired(workspace, TheOne(arg').repo_version_a)) =>
               /\ ~ret'.ok
               /\ ret'.effects \cap {"remote", "fetch", "diff"} = {}
               /\ workspace'.remotes = workspace.remotes
       /\ (/\ op' = "analyze"
           /\ repository' # None
           /\ Wired(workspace, PublishedRepo(name', version'))) =>
               /\ ~ret'.ok
               /\ ret'.effects \cap {"remote", "fetch", "diff"} = {}
               /\ workspace'.remotes = workspace.remotes
       /\ "fetch" \in ret'.effects =>
               \E repo \in workspace'.committed :
                   /\ ~Wired(workspace, repo)
                   /\ Wired(workspace', repo)
                   /\ \A other \in DOMAIN workspace.remotes :
                         workspace'.remotes[other] = workspace.remotes[other]
      ]_vars

\* get_version_diff_info_between_repos has failed on a repo_a that an
\* earlier call had wired to the other repository, which is still its
\* remote
W27_SecondWiringRefused ==
    /\ op = "diffAcrossRepositories"
    /\ ~ret.ok
    /\ ret.effects = {}
    /\ Wired(workspace, TheOne(arg).repo_version_a)
    /\ workspace.remotes[TheOne(arg).repo_version_a] = TheOne(arg).repo_version_b
====
